---- MODULE Spec2Model ----
(***************************************************************************)
(* Model of the assessment backend (FastAPI + SQLAlchemy, src/app).        *)
(*                                                                         *)
(* The committed relational store is the variable db, a record of tables   *)
(* (src/app/db/models.py).  Every HTTP handler of src/app/api is one       *)
(* operator  h(d, cur, args)  that returns the store after the request and *)
(* the HTTP reply, translated branch by branch from the handler; the       *)
(* action of the same name applies it to db and records the reply in resp. *)
(* Specifications Spec, SpecAttempt, SpecLife, SpecGrade, SpecAccess,      *)
(* SpecErrors, SpecBlock, SpecBank and SpecPercent run requests one at a   *)
(* time, each on the handlers of one scenario; SpecConc and SpecRevise run *)
(* workers whose requests interleave statement by statement under the      *)
(* store's default READ COMMITTED isolation.                               *)
(***************************************************************************)
EXTENDS Integers, Sequences, FiniteSets, TLC

(* ------------------------------ bounds -------------------------------- *)
NUsers == 2
MaxCourses == 1
MaxTests == 1
MaxQuestions == 2
MaxVersions == 2
MaxAnswers == 2
MaxPosition == 2
NWorkers == 2
MaxRequests == 1
MaxIndex == 2
MaxGraded == 4
MaxListed == 3
MaxTotal == 200

Users == 1..NUsers
CourseIds == 1..MaxCourses
TestIds == 1..MaxTests
QuestionIds == 1..MaxQuestions
\* the index values answer_update is called with
AnswerIndexInputs == -1..MaxIndex
\* the ids the lists of test_question_order are made of
ListedIds == 1..MaxListed

(* --------------------------- permissions ------------------------------ *)
\* src/app/core/perms.py and the literals used by the routers
COURSE_ADD == "course:add"
COURSE_DEL == "course:del"
COURSE_TEST_WRITE == "course:test:write"
COURSE_TEST_ADD == "course:test:add"
COURSE_TEST_DEL == "course:test:del"
QUEST_READ == "quest:read"
QUEST_CREATE == "quest:create"
QUEST_UPDATE == "quest:update"
QUEST_DEL == "quest:del"
TEST_QUEST_ADD == "test:quest:add"
TEST_QUEST_DEL == "test:quest:del"
TEST_QUEST_UPDATE == "test:quest:update"
TEST_ANSWER_READ == "test:answer:read"

Perms ==
  {COURSE_ADD, COURSE_DEL, COURSE_TEST_WRITE, COURSE_TEST_ADD, COURSE_TEST_DEL,
   QUEST_READ, QUEST_CREATE, QUEST_UPDATE, QUEST_DEL,
   TEST_QUEST_ADD, TEST_QUEST_DEL, TEST_QUEST_UPDATE, TEST_ANSWER_READ}

\* The identity a request arrives with: the token's user id and permission
\* list.  For an operation whose override permission is perm the token
\* carries nothing, exactly perm, or everything but perm.
Callers(perm) ==
  [user_id : Users, permissions : {{}, {perm}, Perms \ {perm}}]

has_perm(current, perm) == perm \in current.permissions

(* ------------------------------ state --------------------------------- *)
VARIABLES
  db,     \* the committed store: one field per table
  resp,   \* the reply of the last request handled (Spec)
  procs   \* the requests in flight, one per worker (SpecConc)

vars == <<db, resp, procs>>

(* ------------------------------ replies ------------------------------- *)
NoDetails == <<>>
Message(text) == <<"message", text>>
RequiredPermission(perm) == <<"required_permission", perm>>

Reply(op, code, message, details, ret) ==
  [op |-> op, code |-> code, message |-> message,
   details |-> details, ret |-> ret]

\* core/errors.py: raise HTTPException(status_code, {"message", "details"?})
http_error(op, status_code, message, details) ==
  Reply(op, status_code, message, details, <<>>)

\* a handler that returns normally
Ok(op, ret) == Reply(op, 200, "OK", NoDetails, ret)

\* an exception no handler catches: the framework answers 500
ServerError(op) ==
  Reply(op, 500, "Internal Server Error", NoDetails, <<>>)

\* helpers that either let the handler go on or raise
Pass == Reply("pass", 0, "", NoDetails, <<>>)

\* what a handler leaves behind: the store and the reply.  A handler that
\* raises leaves the store it started from: the session is closed without
\* a commit (db/session.py) and its writes are rolled back.
Result(d, r) == [db |-> d, resp |-> r]

(* ------------------------------ tables -------------------------------- *)
EmptyTable == <<>>

Insert(table, id, row) == table @@ (id :> row)

Max(S) == CHOOSE x \in S : \A y \in S : y <= x

\* autoincrement primary keys.  No handler deletes a row of an id-keyed
\* table and the code only compares ids for equality, so the next key is
\* taken to be the one after the highest key in use (a key lost to a
\* rolled-back insert is never seen by anyone).
NextId(table) == IF DOMAIN table = {} THEN 1 ELSE Max(DOMAIN table) + 1

InitDb ==
  [users             |-> [u \in Users |-> [is_blocked |-> FALSE]],
   courses           |-> EmptyTable,
   tests             |-> EmptyTable,
   questions         |-> EmptyTable,
   question_versions |-> {},
   test_questions    |-> {},
   attempts          |-> EmptyTable,
   attempt_questions |-> {},
   answers           |-> EmptyTable]

NoReply == Reply("none", 0, "", NoDetails, <<>>)

(* --------------------------- authentication --------------------------- *)
\* the dependency without its look at is_blocked
get_current_user_known_only(d, op, current) ==
  IF current.user_id \notin DOMAIN d.users
  THEN http_error(op, 401, "Unauthorized", <<"reason", "Unknown user">>)
  ELSE Pass

\* core/security.py get_current_user, after the token has been decoded
get_current_user(d, op, current) ==
  IF current.user_id \notin DOMAIN d.users
  THEN http_error(op, 401, "Unauthorized", <<"reason", "Unknown user">>)
  ELSE IF d.users[current.user_id].is_blocked
  THEN http_error(op, 418, "Blocked", NoDetails)
  ELSE Pass

\* Depends(get_current_user): the handler body runs only for a caller the
\* dependency lets through
Authenticated(d, op, current, result) ==
  LET a == get_current_user(d, op, current)
  IN IF a.code # 0 THEN Result(d, a) ELSE result

(* ------------------------------ lookups ------------------------------- *)
\* select(Course).where(Course.id == course_id, Course.is_deleted == False)
CourseFound(d, course_id) ==
  course_id \in DOMAIN d.courses /\ ~d.courses[course_id].is_deleted

\* select(Test).where(Test.id == test_id, Test.is_deleted == False)
TestFound(d, test_id) ==
  test_id \in DOMAIN d.tests /\ ~d.tests[test_id].is_deleted

\* select(Question).where(Question.id == id, Question.is_deleted == False)
QuestionFound(d, id) ==
  id \in DOMAIN d.questions /\ ~d.questions[id].is_deleted

is_teacher(d, course_id, user_id) == d.courses[course_id].teacher_id = user_id

(* ------------------------------ courses ------------------------------- *)
\* api/courses.py course_create
course_create_handler(d, current, teacher_id) ==
  LET op == "course_create" IN
  IF ~has_perm(current, COURSE_ADD)
  THEN Result(d, http_error(op, 403, "Forbidden", RequiredPermission(COURSE_ADD)))
  ELSE LET id == NextId(d.courses) IN
       Result([d EXCEPT !.courses =
                 Insert(@, id, [teacher_id |-> teacher_id, is_deleted |-> FALSE])],
              Ok(op, [id |-> id]))

\* api/courses.py course_delete
course_delete_handler(d, current, course_id) ==
  LET op == "course_delete" IN
  IF ~CourseFound(d, course_id)
  THEN Result(d, http_error(op, 404, "Not found", NoDetails))
  ELSE IF ~is_teacher(d, course_id, current.user_id) /\ ~has_perm(current, COURSE_DEL)
  THEN Result(d, http_error(op, 403, "Forbidden", RequiredPermission(COURSE_DEL)))
  ELSE Result([d EXCEPT !.courses[course_id].is_deleted = TRUE], Ok(op, [status |-> "ok"]))

(* --------------------------- tests of a course ------------------------ *)
\* select(Test).where(Test.id == test_id, Test.course_id == course_id,
\*                    Test.is_deleted == False)
TestOfCourseFound(d, course_id, test_id) ==
  TestFound(d, test_id) /\ d.tests[test_id].course_id = course_id

\* api/tests_in_course.py course_test_add
course_test_add_handler(d, current, course_id) ==
  LET op == "course_test_add" IN
  IF ~CourseFound(d, course_id)
  THEN Result(d, http_error(op, 404, "Not found", NoDetails))
  ELSE IF ~is_teacher(d, course_id, current.user_id) /\ ~has_perm(current, COURSE_TEST_ADD)
  THEN Result(d, http_error(op, 403, "Forbidden", RequiredPermission(COURSE_TEST_ADD)))
  ELSE LET id == NextId(d.tests) IN
       Result([d EXCEPT !.tests =
                 Insert(@, id, [course_id |-> course_id, author_id |-> current.user_id,
                                is_active |-> FALSE, is_deleted |-> FALSE])],
              Ok(op, [id |-> id]))

\* api/tests_in_course.py course_test_del
course_test_del_handler(d, current, course_id, test_id) ==
  LET op == "course_test_del" IN
  IF ~CourseFound(d, course_id)
  THEN Result(d, http_error(op, 404, "Not found", NoDetails))
  ELSE IF ~is_teacher(d, course_id, current.user_id) /\ ~has_perm(current, COURSE_TEST_DEL)
  THEN Result(d, http_error(op, 403, "Forbidden", RequiredPermission(COURSE_TEST_DEL)))
  ELSE IF ~TestOfCourseFound(d, course_id, test_id)
  THEN Result(d, http_error(op, 404, "Not found", NoDetails))
  ELSE Result([d EXCEPT !.tests[test_id].is_deleted = TRUE], Ok(op, [status |-> "ok"]))

\* api/tests_in_course.py course_test_active
course_test_active_handler(d, current, course_id, test_id, active) ==
  LET op == "course_test_active" IN
  IF ~CourseFound(d, course_id)
  THEN Result(d, http_error(op, 404, "Not found", NoDetails))
  ELSE IF ~is_teacher(d, course_id, current.user_id) /\ ~has_perm(current, COURSE_TEST_WRITE)
  THEN Result(d, http_error(op, 403, "Forbidden", RequiredPermission(COURSE_TEST_WRITE)))
  ELSE IF ~TestOfCourseFound(d, course_id, test_id)
  THEN Result(d, http_error(op, 404, "Not found", NoDetails))
  ELSE Result([d EXCEPT !.tests[test_id].is_active = active], Ok(op, [status |-> "ok"]))

(* ----------------------------- questions ------------------------------ *)
\* A CSV parameter is the sequence of its comma-separated parts; a part is
\* the sequence of its characters.
RECURSIVE lstrip(_)
lstrip(part) ==
  IF part # <<>> /\ Head(part) = " " THEN lstrip(Tail(part)) ELSE part

RECURSIVE rstrip(_)
rstrip(part) ==
  IF part # <<>> /\ part[Len(part)] = " "
  THEN rstrip(SubSeq(part, 1, Len(part) - 1))
  ELSE part

\* str.strip()
strip(part) == rstrip(lstrip(part))

\* [o.strip() for o in optionsCsv.split(",") if o.strip()]
RECURSIVE parse_options(_)
parse_options(optionsCsv) ==
  IF optionsCsv = <<>> THEN <<>>
  ELSE LET o == strip(Head(optionsCsv)) IN
       IF o # <<>> THEN <<o>> \o parse_options(Tail(optionsCsv))
       ELSE parse_options(Tail(optionsCsv))

\* the option lists and correct indexes requests are made with
OptionsCsvInputs ==
  { << <<"a">>, <<"b">> >>,
    << <<" ", "a">>, <<>>, <<"b", " ">> >>,
    << <<"a">>, <<" ">> >> }

CorrectIndexInputs == -1 .. 2

\* select(func.max(QuestionVersion.version)).where(question_id == id): None
\* (here 0) when the question has no version
max_version(d, question_id) ==
  LET vs == {v.version : v \in {w \in d.question_versions : w.question_id = question_id}}
  IN IF vs = {} THEN 0 ELSE Max(vs)

\* the row (question_id, version) of question_versions (its primary key)
VersionRow(d, question_id, version) ==
  CHOOSE v \in d.question_versions :
    v.question_id = question_id /\ v.version = version

VersionExists(d, question_id, version) ==
  \E v \in d.question_versions :
    v.question_id = question_id /\ v.version = version

\* the content checks with the upper bound of correctIndex off by one: the
\* variant C22 is checked against
ContentErrorOffByOne(op, options, correctIndex) ==
  IF Len(options) < 2
  THEN http_error(op, 400, "Bad Request", Message("Need at least 2 options"))
  ELSE IF correctIndex < 0 \/ correctIndex > Len(options)
  THEN http_error(op, 400, "Bad Request", Message("correctIndex out of range"))
  ELSE Pass

\* the checks question_create and question_update make on the content
ContentError(op, options, correctIndex) ==
  IF Len(options) < 2
  THEN http_error(op, 400, "Bad Request", Message("Need at least 2 options"))
  ELSE IF correctIndex < 0 \/ correctIndex >= Len(options)
  THEN http_error(op, 400, "Bad Request", Message("correctIndex out of range"))
  ELSE Pass

\* select(func.count(Attempt.id)).join(AttemptQuestion) of the caller's
\* attempts that pin (id, version)
pinning_cnt(d, user_id, id, version) ==
  Cardinality({r \in d.attempt_questions :
                 /\ r.attempt_id \in DOMAIN d.attempts
                 /\ d.attempts[r.attempt_id].user_id = user_id
                 /\ r.question_id = id
                 /\ r.question_version = version})

\* api/questions.py question_get
question_get_handler(d, current, id, version) ==
  LET op == "question_get" IN
  IF ~QuestionFound(d, id)
  THEN Result(d, http_error(op, 404, "Not found", NoDetails))
  ELSE IF /\ d.questions[id].author_id # current.user_id
          /\ ~has_perm(current, QUEST_READ)
          /\ pinning_cnt(d, current.user_id, id, version) = 0
  THEN Result(d, http_error(op, 403, "Forbidden", RequiredPermission(QUEST_READ)))
  ELSE IF ~VersionExists(d, id, version)
  THEN Result(d, http_error(op, 404, "Not found", NoDetails))
  ELSE LET v == VersionRow(d, id, version) IN
       Result(d, Ok(op, [id |-> id, version |-> version, options |-> v.options,
                         correctIndex |-> v.correct_index,
                         author_id |-> d.questions[id].author_id]))

\* api/questions.py question_create.  title and text are stored as given
\* and never read by a decision, so the model leaves them out.
question_create_handler(d, current, optionsCsv, correctIndex) ==
  LET op == "question_create"
      options == parse_options(optionsCsv)
      bad == ContentError(op, options, correctIndex)
  IN
  IF ~has_perm(current, QUEST_CREATE)
  THEN Result(d, http_error(op, 403, "Forbidden", RequiredPermission(QUEST_CREATE)))
  ELSE IF bad.code # 0 THEN Result(d, bad)
  ELSE LET id == NextId(d.questions) IN
       Result([d EXCEPT
                 !.questions = Insert(@, id, [author_id |-> current.user_id,
                                              is_deleted |-> FALSE]),
                 !.question_versions = @ \cup
                    {[question_id |-> id, version |-> 1,
                      options |-> options, correct_index |-> correctIndex]}],
              Ok(op, [id |-> id, version |-> 1]))

\* question_update that overwrites the latest version instead of appending
\* one: the variant C20 is checked against
question_update_in_place(d, current, id, optionsCsv, correctIndex) ==
  LET op == "question_update"
      options == parse_options(optionsCsv)
      bad == ContentError(op, options, correctIndex)
  IN
  IF ~QuestionFound(d, id)
  THEN Result(d, http_error(op, 404, "Not found", NoDetails))
  ELSE IF d.questions[id].author_id # current.user_id /\ ~has_perm(current, QUEST_UPDATE)
  THEN Result(d, http_error(op, 403, "Forbidden", RequiredPermission(QUEST_UPDATE)))
  ELSE IF bad.code # 0 THEN Result(d, bad)
  ELSE LET latest == max_version(d, id) IN
       Result([d EXCEPT !.question_versions =
                  {v \in @ : ~(v.question_id = id /\ v.version = latest)} \cup
                    {[question_id |-> id, version |-> latest,
                      options |-> options, correct_index |-> correctIndex]}],
              Ok(op, [id |-> id, version |-> latest]))

\* api/questions.py question_update: appends version max + 1
question_update_handler(d, current, id, optionsCsv, correctIndex) ==
  LET op == "question_update"
      options == parse_options(optionsCsv)
      bad == ContentError(op, options, correctIndex)
  IN
  IF ~QuestionFound(d, id)
  THEN Result(d, http_error(op, 404, "Not found", NoDetails))
  ELSE IF d.questions[id].author_id # current.user_id /\ ~has_perm(current, QUEST_UPDATE)
  THEN Result(d, http_error(op, 403, "Forbidden", RequiredPermission(QUEST_UPDATE)))
  ELSE IF bad.code # 0 THEN Result(d, bad)
  ELSE LET next_version == max_version(d, id) + 1 IN
       Result([d EXCEPT !.question_versions = @ \cup
                    {[question_id |-> id, version |-> next_version,
                      options |-> options, correct_index |-> correctIndex]}],
              Ok(op, [id |-> id, version |-> next_version]))

\* question_delete that also deletes the snapshot rows of the question:
\* the variant C15 is checked against
question_delete_cascade(d, current, id) ==
  IF ~QuestionFound(d, id)
  THEN Result(d, http_error("question_delete", 404, "Not found", NoDetails))
  ELSE Result([d EXCEPT !.questions[id].is_deleted = TRUE,
                        !.attempt_questions = {r \in @ : r.question_id # id}],
              Ok("question_delete", [status |-> "ok"]))

\* question_delete that asks for no authorship and no permission
question_delete_by_anyone(d, current, id) ==
  IF ~QuestionFound(d, id)
  THEN Result(d, http_error("question_delete", 404, "Not found", NoDetails))
  ELSE Result([d EXCEPT !.questions[id].is_deleted = TRUE],
              Ok("question_delete", [status |-> "ok"]))

\* api/questions.py question_delete: soft delete
question_delete_handler(d, current, id) ==
  LET op == "question_delete" IN
  IF ~QuestionFound(d, id)
  THEN Result(d, http_error(op, 404, "Not found", NoDetails))
  ELSE IF d.questions[id].author_id # current.user_id /\ ~has_perm(current, QUEST_DEL)
  THEN Result(d, http_error(op, 403, "Forbidden", RequiredPermission(QUEST_DEL)))
  ELSE Result([d EXCEPT !.questions[id].is_deleted = TRUE], Ok(op, [status |-> "ok"]))

(* -------------------------- test composition -------------------------- *)
\* the test_questions rows of a test
TestQuestions(d, test_id) == {r \in d.test_questions : r.test_id = test_id}

\* select(func.count(Attempt.id)).where(Attempt.test_id == test.id)
attempts_cnt(d, test_id) ==
  Cardinality({a \in DOMAIN d.attempts : d.attempts[a].test_id = test_id})

\* ensure_can_edit_test with the teacher check moved ahead of the attempts
\* check: the variant C1 is checked against
ensure_can_edit_test_teacher_first(d, op, current, test_id) ==
  LET course_id == d.tests[test_id].course_id IN
  IF ~CourseFound(d, course_id)
  THEN http_error(op, 404, "Not found", NoDetails)
  ELSE IF d.courses[course_id].teacher_id = current.user_id
  THEN Pass
  ELSE IF attempts_cnt(d, test_id) > 0
  THEN http_error(op, 400, "Bad Request",
                  Message("Test has attempts, modification forbidden"))
  ELSE http_error(op, 403, "Forbidden",
                  Message("Not allowed by default; need permission"))

\* api/test_questions.py ensure_can_edit_test: course lookup, then the
\* attempts check, then the teacher check.  Whoever is not the teacher is
\* refused here, before the caller's permission is looked at.
ensure_can_edit_test(d, op, current, test_id) ==
  LET course_id == d.tests[test_id].course_id IN
  IF ~CourseFound(d, course_id)
  THEN http_error(op, 404, "Not found", NoDetails)
  ELSE IF attempts_cnt(d, test_id) > 0
  THEN http_error(op, 400, "Bad Request",
                  Message("Test has attempts, modification forbidden"))
  ELSE IF d.courses[course_id].teacher_id = current.user_id
  THEN Pass
  ELSE http_error(op, 403, "Forbidden",
                  Message("Not allowed by default; need permission"))

\* the part the three test_question handlers share: get_test_or_404,
\* ensure_can_edit_test, then teacher-or-permission
EditGate(d, op, current, test_id, perm) ==
  IF ~TestFound(d, test_id)
  THEN http_error(op, 404, "Not found", NoDetails)
  ELSE LET e == ensure_can_edit_test(d, op, current, test_id) IN
       IF e.code # 0 THEN e
       ELSE IF ~is_teacher(d, d.tests[test_id].course_id, current.user_id)
               /\ ~has_perm(current, perm)
       THEN http_error(op, 403, "Forbidden", RequiredPermission(perm))
       ELSE Pass

\* primary key (test_id, question_id) and uq_test_questions_position
TestQuestionConflict(rows, row) ==
  \E r \in rows :
    /\ r.test_id = row.test_id
    /\ r.question_id = row.question_id \/ r.position = row.position

\* test_question_add that puts the question first and moves the others
\* down by one: the variant C24 is checked against
test_question_add_at_front(d, current, test_id, question_id) ==
  LET op == "test_question_add"
      gate == EditGate(d, op, current, test_id, TEST_QUEST_ADD)
      row == [test_id |-> test_id, question_id |-> question_id, position |-> 0]
      moved == {IF r.test_id = test_id THEN [r EXCEPT !.position = @ + 1] ELSE r :
                  r \in d.test_questions}
  IN
  IF gate.code # 0 THEN Result(d, gate)
  ELSE IF ~QuestionFound(d, question_id)
  THEN Result(d, http_error(op, 404, "Not found", Message("Question not found")))
  ELSE IF TestQuestionConflict(moved, row)
  THEN Result(d, http_error(op, 400, "Bad Request",
                  Message("Question already in test or position conflict")))
  ELSE Result([d EXCEPT !.test_questions = moved \cup {row}],
              Ok(op, [status |-> "ok", position |-> 0]))

\* api/test_questions.py test_question_add
test_question_add_handler(d, current, test_id, question_id) ==
  LET op == "test_question_add"
      gate == EditGate(d, op, current, test_id, TEST_QUEST_ADD)
      positions == {r.position : r \in TestQuestions(d, test_id)}
      next_pos == IF positions = {} THEN 0 ELSE Max(positions) + 1
      row == [test_id |-> test_id, question_id |-> question_id, position |-> next_pos]
  IN
  IF gate.code # 0 THEN Result(d, gate)
  ELSE IF ~QuestionFound(d, question_id)
  THEN Result(d, http_error(op, 404, "Not found", Message("Question not found")))
  ELSE IF TestQuestionConflict(d.test_questions, row)
  THEN Result(d, http_error(op, 400, "Bad Request",
                  Message("Question already in test or position conflict")))
  ELSE Result([d EXCEPT !.test_questions = @ \cup {row}],
              Ok(op, [status |-> "ok", position |-> next_pos]))

\* api/test_questions.py test_question_del
test_question_del_handler(d, current, test_id, question_id) ==
  LET op == "test_question_del"
      gate == EditGate(d, op, current, test_id, TEST_QUEST_DEL)
      tq == {r \in TestQuestions(d, test_id) : r.question_id = question_id}
  IN
  IF gate.code # 0 THEN Result(d, gate)
  ELSE IF tq = {}
  THEN Result(d, http_error(op, 404, "Not found", NoDetails))
  ELSE Result([d EXCEPT !.test_questions = @ \ tq], Ok(op, [status |-> "ok"]))

\* the questionIdsCsv values requests are made with: the list of its
\* non-blank parts, and whether every such part reads as an integer
OrderCsvInputs ==
  {[valid |-> FALSE, ids |-> <<>>]} \cup
  [valid : {TRUE},
   ids : {<<>>} \cup {<<a>> : a \in ListedIds}
           \cup {<<a, b>> : a \in ListedIds, b \in ListedIds}
           \cup {<<a, b, c>> : a \in ListedIds, b \in ListedIds, c \in ListedIds}]

\* parse_csv_ids raises the validation error on a part that is no integer
CsvIsInvalid(csv) == ~csv.valid

\* set(current_ids) != set(new_order), a comparison that does not see a
\* repeated id: the variant C18 is checked against
SameIdSets(ids, new_order) ==
  {new_order[i] : i \in 1..Len(new_order)} = ids

\* sorted(current_ids) != sorted(new_order), as a comparison of multisets
SameIds(ids, new_order) ==
  /\ Len(new_order) = Cardinality(ids)
  /\ {new_order[i] : i \in 1..Len(new_order)} = ids

\* for pos, qid in enumerate(new_order): UPDATE test_questions SET position = pos
\* WHERE test_id, question_id = qid.  Each UPDATE is checked against
\* uq_test_questions_position when it runs; ok = FALSE is the IntegrityError.
RECURSIVE reorder(_, _, _, _)
reorder(rows, test_id, new_order, pos) ==
  IF pos >= Len(new_order) THEN [ok |-> TRUE, rows |-> rows]
  ELSE LET qid == new_order[pos + 1]
           others == {r \in rows : r.test_id = test_id /\ r.question_id # qid}
           moved == {IF r.test_id = test_id /\ r.question_id = qid
                     THEN [r EXCEPT !.position = pos] ELSE r : r \in rows}
       IN IF \E r \in others : r.position = pos
          THEN [ok |-> FALSE, rows |-> rows]
          ELSE reorder(moved, test_id, new_order, pos + 1)

\* test_question_order that commits each UPDATE as it goes, so that the
\* updates made before a failing one stay: the variant C30 is checked
\* against
test_question_order_stepwise(d, current, test_id, questionIdsCsv) ==
  LET op == "test_question_order"
      gate == EditGate(d, op, current, test_id, TEST_QUEST_UPDATE)
      current_ids == {r.question_id : r \in TestQuestions(d, test_id)}
      new_order == questionIdsCsv.ids
      updated == reorder(d.test_questions, test_id, new_order, 0)
  IN
  IF gate.code # 0 THEN Result(d, gate)
  ELSE IF CsvIsInvalid(questionIdsCsv)
  THEN Result(d, http_error(op, 400, "Bad Request", Message("Invalid CSV of ids")))
  ELSE IF ~SameIds(current_ids, new_order)
  THEN Result(d, http_error(op, 400, "Bad Request",
         Message("Order list must contain exactly the same question ids as in test")))
  ELSE IF ~updated.ok
  THEN Result([d EXCEPT !.test_questions = updated.rows], ServerError(op))
  ELSE Result([d EXCEPT !.test_questions = updated.rows], Ok(op, [status |-> "ok"]))

\* api/test_questions.py test_question_order
test_question_order_handler(d, current, test_id, questionIdsCsv) ==
  LET op == "test_question_order"
      gate == EditGate(d, op, current, test_id, TEST_QUEST_UPDATE)
      current_ids == {r.question_id : r \in TestQuestions(d, test_id)}
      new_order == questionIdsCsv.ids
      updated == reorder(d.test_questions, test_id, new_order, 0)
  IN
  IF gate.code # 0 THEN Result(d, gate)
  ELSE IF CsvIsInvalid(questionIdsCsv)
  THEN Result(d, http_error(op, 400, "Bad Request", Message("Invalid CSV of ids")))
  ELSE IF ~SameIds(current_ids, new_order)
  THEN Result(d, http_error(op, 400, "Bad Request",
         Message("Order list must contain exactly the same question ids as in test")))
  ELSE IF ~updated.ok
  THEN Result(d, ServerError(op))
  ELSE Result([d EXCEPT !.test_questions = updated.rows], Ok(op, [status |-> "ok"]))

(* ------------------------------ attempts ------------------------------ *)
\* a lookup that finds no attempt: the variant C3 is checked against
NoAttemptLookup(d, test_id, user_id) == {}

\* select(Attempt).where(Attempt.test_id == test_id, Attempt.user_id == user_id)
ExistingAttempts(d, test_id, user_id) ==
  {a \in DOMAIN d.attempts :
     d.attempts[a].test_id = test_id /\ d.attempts[a].user_id = user_id}

\* select(question_id, position) of the test, ORDER BY position
RECURSIVE OrderByPosition(_)
OrderByPosition(rows) ==
  IF rows = {} THEN <<>>
  ELSE LET first == CHOOSE r \in rows : \A s \in rows : r.position <= s.position
       IN <<first>> \o OrderByPosition(rows \ {first})

\* snapshot rows pinned to version 1 whatever the latest version is: the
\* variant C13 is checked against
SnapshotRowsFirstVersion(d, attempt_id, tq_rows) ==
  {[attempt_id |-> attempt_id, question_id |-> tq_rows[i].question_id,
    question_version |-> 1,
    position |-> tq_rows[i].position] : i \in 1..Len(tq_rows)}

\* snapshot rows numbered from 0 in the order of the loop instead of
\* carrying the positions of the test
SnapshotRowsRenumbered(d, attempt_id, tq_rows) ==
  {[attempt_id |-> attempt_id, question_id |-> tq_rows[i].question_id,
    question_version |-> max_version(d, tq_rows[i].question_id),
    position |-> i - 1] : i \in 1..Len(tq_rows)}

\* steps 6 and 7 of attempt_create: one attempt_questions row and one answers
\* row (answer_index -1) per test question, pinned to the question's latest
\* version; answer ids are handed out in the order of the loop
SnapshotRows(d, attempt_id, tq_rows) ==
  {[attempt_id |-> attempt_id, question_id |-> tq_rows[i].question_id,
    question_version |-> max_version(d, tq_rows[i].question_id),
    position |-> tq_rows[i].position] : i \in 1..Len(tq_rows)}

\* step 7 of attempt_create left out: no answers row is created
AnswerRowsNone(d, attempt_id, tq_rows) == <<>>

AnswerRows(d, attempt_id, tq_rows) ==
  [i \in 1..Len(tq_rows) |->
     [attempt_id |-> attempt_id, question_id |-> tq_rows[i].question_id,
      question_version |-> max_version(d, tq_rows[i].question_id),
      answer_index |-> -1]]

RECURSIVE InsertAll(_, _)
InsertAll(table, rows) ==
  IF rows = <<>> THEN table
  ELSE InsertAll(Insert(table, NextId(table), Head(rows)), Tail(rows))

\* attempt_create without its check that the test has questions
attempt_create_of_empty_test(d, current, test_id) ==
  LET op == "attempt_create"
      user_id == current.user_id
      existing == ExistingAttempts(d, test_id, user_id)
      id == NextId(d.attempts)
      tq_rows == OrderByPosition(TestQuestions(d, test_id))
  IN
  IF ~TestFound(d, test_id)
  THEN Result(d, http_error(op, 404, "Not found", NoDetails))
  ELSE IF ~d.tests[test_id].is_active
  THEN Result(d, http_error(op, 400, "Bad Request", Message("Test is not active")))
  ELSE IF existing # {}
  THEN Result(d, Ok(op, [id |-> CHOOSE a \in existing : TRUE]))
  ELSE Result([d EXCEPT
                 !.attempts = Insert(@, id, [test_id |-> test_id, user_id |-> user_id,
                                             status |-> "in_progress"]),
                 !.attempt_questions = @ \cup SnapshotRows(d, id, tq_rows),
                 !.answers = InsertAll(@, AnswerRows(d, id, tq_rows))],
              Ok(op, [id |-> id]))

\* attempt_create that looks the existing attempt up before it looks at the
\* test
attempt_create_lookup_first(d, current, test_id) ==
  LET op == "attempt_create"
      user_id == current.user_id
      existing == ExistingAttempts(d, test_id, user_id)
      id == NextId(d.attempts)
      tq_rows == OrderByPosition(TestQuestions(d, test_id))
  IN
  IF existing # {}
  THEN Result(d, Ok(op, [id |-> CHOOSE a \in existing : TRUE]))
  ELSE IF ~TestFound(d, test_id)
  THEN Result(d, http_error(op, 404, "Not found", NoDetails))
  ELSE IF ~d.tests[test_id].is_active
  THEN Result(d, http_error(op, 400, "Bad Request", Message("Test is not active")))
  ELSE IF tq_rows = <<>>
  THEN Result(d, http_error(op, 400, "Bad Request", Message("Test has no questions")))
  ELSE Result([d EXCEPT
                 !.attempts = Insert(@, id, [test_id |-> test_id, user_id |-> user_id,
                                             status |-> "in_progress"]),
                 !.attempt_questions = @ \cup SnapshotRows(d, id, tq_rows),
                 !.answers = InsertAll(@, AnswerRows(d, id, tq_rows))],
              Ok(op, [id |-> id]))

\* api/attempts.py attempt_create
attempt_create_handler(d, current, test_id) ==
  LET op == "attempt_create"
      user_id == current.user_id
      existing == ExistingAttempts(d, test_id, user_id)
      id == NextId(d.attempts)
      tq_rows == OrderByPosition(TestQuestions(d, test_id))
      unversioned == {i \in 1..Len(tq_rows) : max_version(d, tq_rows[i].question_id) = 0}
  IN
  IF ~TestFound(d, test_id)
  THEN Result(d, http_error(op, 404, "Not found", NoDetails))
  ELSE IF ~d.tests[test_id].is_active
  THEN Result(d, http_error(op, 400, "Bad Request", Message("Test is not active")))
  ELSE IF existing # {}
  THEN Result(d, Ok(op, [id |-> CHOOSE a \in existing : TRUE]))
  ELSE IF tq_rows = <<>>
  THEN Result(d, http_error(op, 400, "Bad Request", Message("Test has no questions")))
  ELSE IF unversioned # {}
  THEN Result(d, http_error(op, 400, "Bad Request", Message("Question has no versions")))
  ELSE Result([d EXCEPT
                 !.attempts = Insert(@, id, [test_id |-> test_id, user_id |-> user_id,
                                             status |-> "in_progress"]),
                 !.attempt_questions = @ \cup SnapshotRows(d, id, tq_rows),
                 !.answers = InsertAll(@, AnswerRows(d, id, tq_rows))],
              Ok(op, [id |-> id]))

\* attempt_finish that reopens an attempt already finished: the variant C8
\* is checked against
attempt_finish_toggle(d, current, attempt_id) ==
  LET op == "attempt_finish" IN
  IF attempt_id \notin DOMAIN d.attempts
  THEN Result(d, http_error(op, 404, "Not found", NoDetails))
  ELSE IF d.attempts[attempt_id].user_id # current.user_id
  THEN Result(d, http_error(op, 403, "Forbidden", NoDetails))
  ELSE Result([d EXCEPT !.attempts[attempt_id].status =
                          IF @ = "finished" THEN "in_progress" ELSE "finished"],
              Ok(op, [status |-> "ok"]))

\* attempt_finish that refuses an attempt already finished: the variant C7
\* is checked against
attempt_finish_once(d, current, attempt_id) ==
  LET op == "attempt_finish" IN
  IF attempt_id \notin DOMAIN d.attempts
  THEN Result(d, http_error(op, 404, "Not found", NoDetails))
  ELSE IF d.attempts[attempt_id].user_id # current.user_id
  THEN Result(d, http_error(op, 403, "Forbidden", NoDetails))
  ELSE IF d.attempts[attempt_id].status = "finished"
  THEN Result(d, http_error(op, 400, "Bad Request", Message("Attempt already finished")))
  ELSE Result([d EXCEPT !.attempts[attempt_id].status = "finished"],
              Ok(op, [status |-> "ok"]))

\* api/attempts.py attempt_finish
attempt_finish_handler(d, current, attempt_id) ==
  LET op == "attempt_finish" IN
  IF attempt_id \notin DOMAIN d.attempts
  THEN Result(d, http_error(op, 404, "Not found", NoDetails))
  ELSE IF d.attempts[attempt_id].user_id # current.user_id
  THEN Result(d, http_error(op, 403, "Forbidden", NoDetails))
  ELSE IF d.attempts[attempt_id].status = "finished"
  THEN Result(d, Ok(op, [status |-> "ok"]))
  ELSE Result([d EXCEPT !.attempts[attempt_id].status = "finished"],
              Ok(op, [status |-> "ok"]))

(* ------------------------------ answers ------------------------------- *)
\* the checks of answer_update and answer_delete without the one of the
\* attempt's status: the variant C9 is checked against
AnswerGateAnyStatus(d, op, current, answer_id) ==
  IF answer_id \notin DOMAIN d.answers
  THEN http_error(op, 404, "Not found", NoDetails)
  ELSE IF d.attempts[d.answers[answer_id].attempt_id].user_id # current.user_id
  THEN http_error(op, 403, "Forbidden", NoDetails)
  ELSE Pass

\* the part answer_update and answer_delete share after their own checks:
\* the answer, its attempt, the owner, the attempt's status
AnswerGate(d, op, current, answer_id) ==
  IF answer_id \notin DOMAIN d.answers
  THEN http_error(op, 404, "Not found", NoDetails)
  ELSE LET attempt == d.attempts[d.answers[answer_id].attempt_id] IN
       IF attempt.user_id # current.user_id
       THEN http_error(op, 403, "Forbidden", NoDetails)
       ELSE IF attempt.status # "in_progress"
       THEN http_error(op, 400, "Bad Request", Message("Attempt already finished"))
       ELSE Pass

\* api/answers.py answer_update
answer_update_handler(d, current, answer_id, index) ==
  LET op == "answer_update"
      gate == AnswerGate(d, op, current, answer_id)
  IN
  IF index < 0
  THEN Result(d, http_error(op, 400, "Bad Request",
         Message("index must be >= 0 (use answer_delete to reset to -1)")))
  ELSE IF gate.code # 0 THEN Result(d, gate)
  ELSE Result([d EXCEPT !.answers[answer_id].answer_index = index],
              Ok(op, [status |-> "ok"]))

\* answer_delete that refuses an answer which is already unanswered: the
\* variant C17 is checked against
answer_delete_answered_only(d, current, answer_id) ==
  LET op == "answer_delete"
      gate == AnswerGate(d, op, current, answer_id)
  IN
  IF gate.code # 0 THEN Result(d, gate)
  ELSE IF d.answers[answer_id].answer_index = -1
  THEN Result(d, http_error(op, 400, "Bad Request", Message("Answer is not set")))
  ELSE Result([d EXCEPT !.answers[answer_id].answer_index = -1],
              Ok(op, [status |-> "ok"]))

\* api/answers.py answer_delete
answer_delete_handler(d, current, answer_id) ==
  LET op == "answer_delete"
      gate == AnswerGate(d, op, current, answer_id)
  IN
  IF gate.code # 0 THEN Result(d, gate)
  ELSE Result([d EXCEPT !.answers[answer_id].answer_index = -1],
              Ok(op, [status |-> "ok"]))

(* ------------------------------ grading ------------------------------- *)
\* get_test_course: the test joined with its course, both not deleted
TestCourseFound(d, test_id) ==
  TestFound(d, test_id) /\ CourseFound(d, d.tests[test_id].course_id)

\* a check that lets every caller through: the variant C28 is checked
\* against
ensure_nothing(d, op, course_id, current, perm) == Pass

\* ensure_teacher_or_perm
ensure_teacher_or_perm(d, op, course_id, current, perm) ==
  IF d.courses[course_id].teacher_id = current.user_id THEN Pass
  ELSE IF ~has_perm(current, perm)
  THEN http_error(op, 403, "Forbidden", RequiredPermission(perm))
  ELSE Pass

\* the answers rows of an attempt
AnswersOf(d, attempt_id) ==
  {a \in DOMAIN d.answers : d.answers[a].attempt_id = attempt_id}

\* a join of an answer with the latest version of its question: the variant
\* C6 is checked against
JoinedLatestVersion(d, answer) ==
  {v \in d.question_versions :
     v.question_id = answer.question_id
     /\ v.version = max_version(d, answer.question_id)}

\* the join of an answer with QuestionVersion on
\* (Answer.question_id, Answer.question_version)
JoinedVersions(d, answer) ==
  {v \in d.question_versions :
     v.question_id = answer.question_id /\ v.version = answer.question_version}

\* a count of the answered slots, right or wrong: the variant C16 is
\* checked against
correct_count_answered(d, attempt_id) ==
  Cardinality({a \in AnswersOf(d, attempt_id) : d.answers[a].answer_index # -1})

\* count(Answer.id) ... where answer_index != -1 and
\* answer_index == QuestionVersion.correct_index
correct_count(d, attempt_id) ==
  Cardinality({a \in AnswersOf(d, attempt_id) :
     \E v \in JoinedVersions(d, d.answers[a]) :
        /\ d.answers[a].answer_index # -1
        /\ d.answers[a].answer_index = v.correct_index})

\* int(round(...)) with ties rounded up instead of to the even integer
grade_percent_half_up(correct, total) ==
  LET q == (100 * correct) \div total
      r == (100 * correct) % total
  IN IF 2 * r < total THEN q ELSE q + 1

\* int(round(100 * correct / total)): round goes to the nearest integer and
\* on a tie to the even one
grade_percent(correct, total) ==
  LET q == (100 * correct) \div total
      r == (100 * correct) % total
  IN IF 2 * r < total THEN q
     ELSE IF 2 * r > total THEN q + 1
     ELSE IF q % 2 = 0 THEN q ELSE q + 1

\* the body of a test_user_grade reply
Grade(d, test_id, user_id, attempt_id) ==
  LET total == Cardinality(AnswersOf(d, attempt_id))
      correct == correct_count(d, attempt_id)
  IN IF total = 0
     THEN [test_id |-> test_id, user_id |-> user_id, attempt_id |-> attempt_id,
           correct |-> 0, total |-> 0, grade_percent |-> 0]
     ELSE [test_id |-> test_id, user_id |-> user_id, attempt_id |-> attempt_id,
           correct |-> correct, total |-> total,
           grade_percent |-> grade_percent(correct, total)]

\* api/teacher_tests.py test_user_grade
test_user_grade_handler(d, current, test_id, user_id) ==
  LET op == "test_user_grade"
      allowed == ensure_teacher_or_perm(d, op, d.tests[test_id].course_id,
                                        current, TEST_ANSWER_READ)
      attempt == ExistingAttempts(d, test_id, user_id)
  IN
  IF ~TestCourseFound(d, test_id)
  THEN Result(d, http_error(op, 404, "Not found", NoDetails))
  ELSE IF allowed.code # 0 THEN Result(d, allowed)
  ELSE IF attempt = {}
  THEN Result(d, http_error(op, 404, "Not found",
                            Message("User has no attempt for this test")))
  ELSE Result(d, Ok(op, Grade(d, test_id, user_id, CHOOSE a \in attempt : TRUE)))

\* the answers of an attempt ORDER BY Answer.id
RECURSIVE OrderById(_)
OrderById(ids) ==
  IF ids = {} THEN <<>>
  ELSE LET first == CHOOSE a \in ids : \A b \in ids : a <= b
       IN <<first>> \o OrderById(ids \ {first})

\* select(Answer.id, Answer.question_id, Answer.answer_index) of an
\* attempt, ORDER BY Answer.id
AnswerList(d, attempt_id) ==
  LET ids == OrderById(AnswersOf(d, attempt_id))
  IN [i \in 1..Len(ids) |->
        [id |-> ids[i], question_id |-> d.answers[ids[i]].question_id,
         answer_index |-> d.answers[ids[i]].answer_index]]

\* api/answers.py answers_get
answers_get_handler(d, current, attempt_id) ==
  LET op == "answers_get" IN
  IF attempt_id \notin DOMAIN d.attempts
  THEN Result(d, http_error(op, 404, "Not found", NoDetails))
  ELSE LET attempt == d.attempts[attempt_id] IN
       IF /\ attempt.user_id # current.user_id
          /\ \/ ~(TestFound(d, attempt.test_id)
                   /\ CourseFound(d, d.tests[attempt.test_id].course_id))
             \/ d.courses[d.tests[attempt.test_id].course_id].teacher_id
                  # current.user_id
       THEN Result(d, http_error(op, 403, "Forbidden", NoDetails))
       ELSE Result(d, Ok(op, AnswerList(d, attempt_id)))

\* select(question_id, question_version, position) of an attempt, ORDER BY
\* position
QuestionList(d, attempt_id) ==
  LET rows == {r \in d.attempt_questions : r.attempt_id = attempt_id}
      ordered == OrderByPosition(rows)
  IN [i \in 1..Len(ordered) |->
        [question_id |-> ordered[i].question_id,
         version |-> ordered[i].question_version,
         position |-> ordered[i].position]]

\* attempt_get that also serves the teacher of the course of the attempt's
\* test: the variant C29 is checked against
attempt_get_for_teacher(d, current, attempt_id) ==
  LET op == "attempt_get" IN
  IF attempt_id \notin DOMAIN d.attempts
  THEN Result(d, http_error(op, 404, "Not found", NoDetails))
  ELSE IF /\ d.attempts[attempt_id].user_id # current.user_id
          /\ d.courses[d.tests[d.attempts[attempt_id].test_id].course_id].teacher_id
               # current.user_id
  THEN Result(d, http_error(op, 403, "Forbidden", NoDetails))
  ELSE Result(d, Ok(op, [id |-> attempt_id,
                         test_id |-> d.attempts[attempt_id].test_id,
                         user_id |-> d.attempts[attempt_id].user_id,
                         status |-> d.attempts[attempt_id].status,
                         questions |-> QuestionList(d, attempt_id),
                         answers |-> AnswerList(d, attempt_id)]))

\* api/attempts.py attempt_get
attempt_get_handler(d, current, attempt_id) ==
  LET op == "attempt_get" IN
  IF attempt_id \notin DOMAIN d.attempts
  THEN Result(d, http_error(op, 404, "Not found", NoDetails))
  ELSE IF d.attempts[attempt_id].user_id # current.user_id
  THEN Result(d, http_error(op, 403, "Forbidden", NoDetails))
  ELSE Result(d, Ok(op, [id |-> attempt_id,
                         test_id |-> d.attempts[attempt_id].test_id,
                         user_id |-> d.attempts[attempt_id].user_id,
                         status |-> d.attempts[attempt_id].status,
                         questions |-> QuestionList(d, attempt_id),
                         answers |-> AnswerList(d, attempt_id)]))

\* one entry of a test_user_answers reply
Review(answer, v) ==
  [question_id |-> answer.question_id, version |-> answer.question_version,
   answer_index |-> answer.answer_index,
   answer_text |-> IF answer.answer_index >= 0 /\ answer.answer_index < Len(v.options)
                   THEN v.options[answer.answer_index + 1]
                   ELSE <<"None">>,
   correct_index |-> v.correct_index]

\* the body of a test_user_answers reply: an inner join, so an answer with
\* no matching version would have no entry
Reviews(d, attempt_id) ==
  LET ids == OrderById({a \in AnswersOf(d, attempt_id) :
                           JoinedVersions(d, d.answers[a]) # {}})
  IN [i \in 1..Len(ids) |->
        Review(d.answers[ids[i]],
               CHOOSE v \in JoinedVersions(d, d.answers[ids[i]]) : TRUE)]

\* api/teacher_tests.py test_user_answers
test_user_answers_handler(d, current, test_id, user_id) ==
  LET op == "test_user_answers"
      allowed == ensure_teacher_or_perm(d, op, d.tests[test_id].course_id,
                                        current, TEST_ANSWER_READ)
      attempt == ExistingAttempts(d, test_id, user_id)
  IN
  IF ~TestCourseFound(d, test_id)
  THEN Result(d, http_error(op, 404, "Not found", NoDetails))
  ELSE IF allowed.code # 0 THEN Result(d, allowed)
  ELSE IF attempt = {}
  THEN Result(d, http_error(op, 404, "Not found",
                            Message("User has no attempt for this test")))
  ELSE LET attempt_id == CHOOSE a \in attempt : TRUE IN
       Result(d, Ok(op, [test_id |-> test_id, user_id |-> user_id,
                         attempt_id |-> attempt_id,
                         answers |-> Reviews(d, attempt_id)]))

(* ------------------------ requests, one at a time --------------------- *)
\* the bounds of the model, as a limit on the store a request may leave
WithinBounds(d) ==
  /\ Cardinality(DOMAIN d.courses) <= MaxCourses
  /\ Cardinality(DOMAIN d.tests) <= MaxTests
  /\ Cardinality(DOMAIN d.questions) <= MaxQuestions
  /\ \A v \in d.question_versions : v.version <= MaxVersions
  /\ Cardinality(DOMAIN d.answers) <= MaxAnswers
  /\ \A r \in d.test_questions : r.position <= MaxPosition

\* the identity of a request to a handler that makes no use of permissions
AnyCallers == [user_id : Users, permissions : {{}, Perms}]

AttemptIds == 1..MaxAnswers
AnswerIds == 1..MaxAnswers

\* the contents question_create and question_update are called with
ContentInputs ==
  { [optionsCsv |-> << <<"a">>, <<"b">> >>, correctIndex |-> 0],
    [optionsCsv |-> << <<" ", "a">>, <<>>, <<"b", " ">> >>, correctIndex |-> 1],
    [optionsCsv |-> << <<"a">>, <<"b">> >>, correctIndex |-> 2],
    [optionsCsv |-> << <<"a">>, <<"b">> >>, correctIndex |-> -1],
    [optionsCsv |-> << <<"a">>, <<" ">> >>, correctIndex |-> 0] }

course_create ==
  \E current \in Callers(COURSE_ADD), teacher_id \in Users :
    \E r \in {Authenticated(db, "course_create", current,
                 course_create_handler(db, current, teacher_id))} :
      /\ WithinBounds(r.db)
      /\ db' = r.db
      /\ resp' = r.resp
      /\ UNCHANGED procs

course_delete ==
  \E current \in Callers(COURSE_DEL), course_id \in CourseIds :
    \E r \in {Authenticated(db, "course_delete", current,
                 course_delete_handler(db, current, course_id))} :
      /\ WithinBounds(r.db)
      /\ db' = r.db
      /\ resp' = r.resp
      /\ UNCHANGED procs

course_test_add ==
  \E current \in Callers(COURSE_TEST_ADD), course_id \in CourseIds :
    \E r \in {Authenticated(db, "course_test_add", current,
                 course_test_add_handler(db, current, course_id))} :
      /\ WithinBounds(r.db)
      /\ db' = r.db
      /\ resp' = r.resp
      /\ UNCHANGED procs

course_test_del ==
  \E current \in Callers(COURSE_TEST_DEL), course_id \in CourseIds, test_id \in TestIds :
    \E r \in {Authenticated(db, "course_test_del", current,
                 course_test_del_handler(db, current, course_id, test_id))} :
      /\ WithinBounds(r.db)
      /\ db' = r.db
      /\ resp' = r.resp
      /\ UNCHANGED procs

course_test_active ==
  \E current \in Callers(COURSE_TEST_WRITE), course_id \in CourseIds,
     test_id \in TestIds, active \in BOOLEAN :
    \E r \in {Authenticated(db, "course_test_active", current,
                 course_test_active_handler(db, current, course_id, test_id, active))} :
      /\ WithinBounds(r.db)
      /\ db' = r.db
      /\ resp' = r.resp
      /\ UNCHANGED procs

question_create ==
  \E current \in Callers(QUEST_CREATE), content \in ContentInputs :
    \E r \in {Authenticated(db, "question_create", current,
                 question_create_handler(db, current, content.optionsCsv, content.correctIndex))} :
      /\ WithinBounds(r.db)
      /\ db' = r.db
      /\ resp' = r.resp
      /\ UNCHANGED procs

question_update ==
  \E current \in Callers(QUEST_UPDATE), id \in QuestionIds, content \in ContentInputs :
    \E r \in {Authenticated(db, "question_update", current,
                 question_update_handler(db, current, id, content.optionsCsv, content.correctIndex))} :
      /\ WithinBounds(r.db)
      /\ db' = r.db
      /\ resp' = r.resp
      /\ UNCHANGED procs

question_get ==
  \E current \in Callers(QUEST_READ), id \in QuestionIds, version \in 1..MaxVersions :
    \E r \in {Authenticated(db, "question_get", current,
                 question_get_handler(db, current, id, version))} :
      /\ db' = r.db
      /\ resp' = r.resp
      /\ UNCHANGED procs

question_delete ==
  \E current \in Callers(QUEST_DEL), id \in QuestionIds :
    \E r \in {Authenticated(db, "question_delete", current,
                 question_delete_handler(db, current, id))} :
      /\ WithinBounds(r.db)
      /\ db' = r.db
      /\ resp' = r.resp
      /\ UNCHANGED procs

test_question_add ==
  \E current \in Callers(TEST_QUEST_ADD), test_id \in TestIds, question_id \in QuestionIds :
    \E r \in {Authenticated(db, "test_question_add", current,
                 test_question_add_handler(db, current, test_id, question_id))} :
      /\ WithinBounds(r.db)
      /\ db' = r.db
      /\ resp' = r.resp
      /\ UNCHANGED procs

test_question_del ==
  \E current \in Callers(TEST_QUEST_DEL), test_id \in TestIds, question_id \in QuestionIds :
    \E r \in {Authenticated(db, "test_question_del", current,
                 test_question_del_handler(db, current, test_id, question_id))} :
      /\ db' = r.db
      /\ resp' = r.resp
      /\ UNCHANGED procs

test_question_order ==
  \E current \in Callers(TEST_QUEST_UPDATE), test_id \in TestIds,
     questionIdsCsv \in OrderCsvInputs :
    \E r \in {Authenticated(db, "test_question_order", current,
                 test_question_order_handler(db, current, test_id, questionIdsCsv))} :
      /\ db' = r.db
      /\ resp' = r.resp
      /\ UNCHANGED procs

attempt_create ==
  \E current \in AnyCallers, test_id \in TestIds :
    \E r \in {Authenticated(db, "attempt_create", current,
                 attempt_create_handler(db, current, test_id))} :
      /\ WithinBounds(r.db)
      /\ db' = r.db
      /\ resp' = r.resp
      /\ UNCHANGED procs

answers_get ==
  \E current \in Callers(TEST_ANSWER_READ), attempt_id \in AttemptIds :
    \E r \in {Authenticated(db, "answers_get", current,
                 answers_get_handler(db, current, attempt_id))} :
      /\ db' = r.db
      /\ resp' = r.resp
      /\ UNCHANGED procs

attempt_get ==
  \E current \in AnyCallers, attempt_id \in AttemptIds :
    \E r \in {Authenticated(db, "attempt_get", current,
                 attempt_get_handler(db, current, attempt_id))} :
      /\ db' = r.db
      /\ resp' = r.resp
      /\ UNCHANGED procs

attempt_finish ==
  \E current \in AnyCallers, attempt_id \in AttemptIds :
    \E r \in {Authenticated(db, "attempt_finish", current,
                 attempt_finish_handler(db, current, attempt_id))} :
      /\ WithinBounds(r.db)
      /\ db' = r.db
      /\ resp' = r.resp
      /\ UNCHANGED procs

answer_update ==
  \E current \in AnyCallers, answer_id \in AnswerIds,
     index \in AnswerIndexInputs :
    \E r \in {Authenticated(db, "answer_update", current,
                 answer_update_handler(db, current, answer_id, index))} :
      /\ WithinBounds(r.db)
      /\ db' = r.db
      /\ resp' = r.resp
      /\ UNCHANGED procs

answer_delete ==
  \E current \in AnyCallers, answer_id \in AnswerIds :
    \E r \in {Authenticated(db, "answer_delete", current,
                 answer_delete_handler(db, current, answer_id))} :
      /\ WithinBounds(r.db)
      /\ db' = r.db
      /\ resp' = r.resp
      /\ UNCHANGED procs

test_user_grade ==
  \E current \in Callers(TEST_ANSWER_READ), test_id \in TestIds, user_id \in Users :
    \E r \in {Authenticated(db, "test_user_grade", current,
                 test_user_grade_handler(db, current, test_id, user_id))} :
      /\ db' = r.db
      /\ resp' = r.resp
      /\ UNCHANGED procs

test_user_answers ==
  \E current \in Callers(TEST_ANSWER_READ), test_id \in TestIds, user_id \in Users :
    \E r \in {Authenticated(db, "test_user_answers", current,
                 test_user_answers_handler(db, current, test_id, user_id))} :
      /\ db' = r.db
      /\ resp' = r.resp
      /\ UNCHANGED procs

(* --------------------------- starting stores --------------------------- *)
\* the tokens the starting stores are built with
Teacher == [user_id |-> 1, permissions |-> Perms]
Student == [user_id |-> 2, permissions |-> {}]

\* users 1 and 2; user 1 has created course 1 (teacher: user 1), its test 1
\* (not yet active) and questions 1 and 2 (version 1 each, correct indexes
\* 0 and 1)
DbContent ==
  LET d1 == course_create_handler(InitDb, Teacher, 1).db
      d2 == course_test_add_handler(d1, Teacher, 1).db
      d3 == question_create_handler(d2, Teacher, << <<"a">>, <<"b">> >>, 0).db
  IN question_create_handler(d3, Teacher, << <<"a">>, <<"b">> >>, 1).db

\* DbContent with both questions put into the test, and the test activated
DbOpenTest ==
  LET d1 == test_question_add_handler(DbContent, Teacher, 1, 1).db
      d2 == test_question_add_handler(d1, Teacher, 1, 2).db
  IN course_test_active_handler(d2, Teacher, 1, 1, TRUE).db

Idle == <<>>

(* Spec: composing a test and starting attempts on it, from DbContent *)
Init ==
  /\ db = DbContent
  /\ resp = NoReply
  /\ procs = Idle

Next ==
  \/ course_delete
  \/ course_test_del
  \/ course_test_active
  \/ test_question_add
  \/ test_question_del
  \/ test_question_order
  \/ attempt_create

Spec == Init /\ [][Next]_vars

(* SpecAttempt: attempts on an open test of two questions, from DbOpenTest *)
InitAttempt ==
  /\ db = DbOpenTest
  /\ resp = NoReply
  /\ procs = Idle

NextAttempt ==
  \/ attempt_create
  \/ attempt_finish
  \/ answer_update
  \/ answer_delete
  \/ question_update
  \/ test_user_grade
  \/ test_user_answers

SpecAttempt == InitAttempt /\ [][NextAttempt]_vars

(* ---------------------- requests that run concurrently ------------------ *)
(* Every request runs in a session of its own (db/session.py) on the       *)
(* engine's default isolation level, READ COMMITTED: each SELECT reads the *)
(* store as committed when it runs, and the writes of a request reach the  *)
(* store at its commit.  A worker takes a request, runs its statements one *)
(* step at a time and keeps the reply.  Consecutive SELECTs are one step   *)
(* when at most one of them reads a table that a request of SpecConc       *)
(* writes (attempts, test_questions, answers).                             *)
Workers == 1..NWorkers

NoCaller == [user_id |-> 0, permissions |-> {}]
NoArgs == [test_id |-> 0, question_id |-> 0, answer_id |-> 0, attempt_id |-> 0,
           index |-> 0, csv |-> [valid |-> TRUE, ids |-> <<>>],
           content |-> [optionsCsv |-> <<>>, correctIndex |-> 0]]
NoLocals == [attempt_id |-> 0, tq_rows |-> <<>>, next_pos |-> 0, loaded |-> 0,
             pending |-> FALSE, next_version |-> 0]

IdleWorker ==
  [pc |-> "idle", op |-> "none", current |-> NoCaller, args |-> NoArgs,
   loc |-> NoLocals, reply |-> NoReply, served |-> 0]

\* the tokens concurrent requests are made with
ConcCallers == [user_id : Users, permissions : {{}}]

\* worker w is free to take a request
Free(w) ==
  /\ procs[w].pc \in {"idle", "done"}
  /\ procs[w].served < MaxRequests

\* worker w has taken request op: it is left at step pc, or (pc = "done")
\* with its reply
Taken(w, op, current, args, pc, loc, reply) ==
  [procs EXCEPT ![w] =
     [pc |-> pc, op |-> op, current |-> current, args |-> args,
      loc |-> loc, reply |-> reply, served |-> procs[w].served + 1]]

\* worker w ends its request with reply; what it had not committed is gone
Replied(w, reply) ==
  [procs EXCEPT ![w].pc = "done", ![w].reply = reply, ![w].loc = NoLocals]

At(w, op, pc) == procs[w].op = op /\ procs[w].pc = pc

\* --- attempt_create ---
\* the checks of attempt_create up to the lookup of an existing attempt
AttemptLookup(d, op, current, test_id) ==
  LET existing == ExistingAttempts(d, test_id, current.user_id) IN
  IF ~TestFound(d, test_id)
  THEN http_error(op, 404, "Not found", NoDetails)
  ELSE IF ~d.tests[test_id].is_active
  THEN http_error(op, 400, "Bad Request", Message("Test is not active"))
  ELSE IF existing # {}
  THEN Ok(op, [id |-> CHOOSE a \in existing : TRUE])
  ELSE Pass

\* get_current_user, SELECT test, SELECT existing attempt
ac_lookup ==
  \E w \in Workers, current \in ConcCallers, test_id \in TestIds :
    /\ Free(w)
    /\ \E a \in {get_current_user(db, "attempt_create", current)} :
       \E r \in {IF a.code # 0 THEN a
                 ELSE AttemptLookup(db, "attempt_create", current, test_id)} :
         procs' = Taken(w, "attempt_create", current,
                        [NoArgs EXCEPT !.test_id = test_id],
                        IF r.code = 0 THEN "flush" ELSE "done", NoLocals, r)
    /\ UNCHANGED <<db, resp>>

\* the attempts other workers have inserted and not yet committed
PendingAttempts(w) ==
  {o \in Workers \ {w} : procs[o].op = "attempt_create" /\ procs[o].loc.pending}

\* a table without uq_attempts_test_user: the variant C5 is checked against
NoUniqueAttempt(d, test_id, user_id) == FALSE

\* uq_attempts_test_user against the committed rows
AttemptKeyTaken(d, test_id, user_id) ==
  ExistingAttempts(d, test_id, user_id) # {}

\* session.flush(): INSERT INTO attempts.  The unique index makes the
\* insert wait while another session holds an uncommitted row with the same
\* (test_id, user_id); against a committed row it raises IntegrityError,
\* which attempt_create does not catch.
ac_flush ==
  \E w \in Workers :
    /\ At(w, "attempt_create", "flush")
    /\ LET test_id == procs[w].args.test_id
           user_id == procs[w].current.user_id
           ids == DOMAIN db.attempts \cup
                    {procs[o].loc.attempt_id : o \in PendingAttempts(w)}
       IN /\ ~\E o \in PendingAttempts(w) :
                /\ procs[o].args.test_id = test_id
                /\ procs[o].current.user_id = user_id
          /\ procs' =
               IF AttemptKeyTaken(db, test_id, user_id)
               THEN Replied(w, ServerError("attempt_create"))
               ELSE [procs EXCEPT
                       ![w].pc = "select_tq",
                       ![w].loc.pending = TRUE,
                       ![w].loc.attempt_id = IF ids = {} THEN 1 ELSE Max(ids) + 1]
    /\ UNCHANGED <<db, resp>>

\* the same step in a session that commits what it has flushed when the
\* handler raises: the variant C14 is checked against
ac_snapshot_keeps_flushed ==
  \E w \in Workers :
    /\ At(w, "attempt_create", "select_tq")
    /\ TestQuestions(db, procs[w].args.test_id) = {}
    /\ db' = [db EXCEPT !.attempts = Insert(@, procs[w].loc.attempt_id,
                  [test_id |-> procs[w].args.test_id,
                   user_id |-> procs[w].current.user_id,
                   status |-> "in_progress"])]
    /\ procs' = Replied(w, http_error("attempt_create", 400, "Bad Request",
                                      Message("Test has no questions")))
    /\ UNCHANGED resp

\* SELECT the test's questions ORDER BY position, then max(version) of each
ac_snapshot ==
  \E w \in Workers :
    /\ At(w, "attempt_create", "select_tq")
    /\ LET tq_rows == OrderByPosition(TestQuestions(db, procs[w].args.test_id))
           unversioned == {i \in 1..Len(tq_rows) :
                             max_version(db, tq_rows[i].question_id) = 0}
       IN procs' =
            IF tq_rows = <<>>
            THEN Replied(w, http_error("attempt_create", 400, "Bad Request",
                                       Message("Test has no questions")))
            ELSE IF unversioned # {}
            THEN Replied(w, http_error("attempt_create", 400, "Bad Request",
                                       Message("Question has no versions")))
            ELSE [procs EXCEPT ![w].pc = "commit", ![w].loc.tq_rows = tq_rows]
    /\ UNCHANGED <<db, resp>>

\* session.commit(): the attempt, its snapshot and its answers
ac_commit ==
  \E w \in Workers :
    /\ At(w, "attempt_create", "commit")
    /\ LET id == procs[w].loc.attempt_id
           tq_rows == procs[w].loc.tq_rows
       IN /\ Cardinality(DOMAIN db.answers) + Len(tq_rows) <= MaxAnswers
          /\ db' = [db EXCEPT
                      !.attempts = Insert(@, id,
                          [test_id |-> procs[w].args.test_id,
                           user_id |-> procs[w].current.user_id,
                           status |-> "in_progress"]),
                      !.attempt_questions = @ \cup SnapshotRows(db, id, tq_rows),
                      !.answers = InsertAll(@, AnswerRows(db, id, tq_rows))]
          /\ procs' = Replied(w, Ok("attempt_create", [id |-> id]))
    /\ UNCHANGED resp

\* --- test_question_add / test_question_del / test_question_order ---
\* get_current_user, then the gate of the three handlers; test_question_add
\* also looks the question up
tq_gate ==
  \E w \in Workers, current \in ConcCallers, test_id \in TestIds,
     question_id \in QuestionIds,
     req \in {[op |-> "test_question_add", perm |-> TEST_QUEST_ADD, pc |-> "select_pos"],
              [op |-> "test_question_del", perm |-> TEST_QUEST_DEL, pc |-> "select_tq"],
              [op |-> "test_question_order", perm |-> TEST_QUEST_UPDATE, pc |-> "select_ids"]},
     csv \in {[valid |-> TRUE, ids |-> <<1>>], [valid |-> TRUE, ids |-> <<2, 1>>]} :
    /\ Free(w)
    /\ req.op = "test_question_order" => question_id = 1
    /\ req.op # "test_question_order" => csv.ids = <<1>>
    /\ \E a \in {get_current_user(db, req.op, current)} :
       \E g \in {IF a.code # 0 THEN a
                 ELSE EditGate(db, req.op, current, test_id, req.perm)} :
       \E r \in {IF g.code = 0 /\ req.op = "test_question_add"
                    /\ ~QuestionFound(db, question_id)
                 THEN http_error(req.op, 404, "Not found", Message("Question not found"))
                 ELSE g} :
         procs' = Taken(w, req.op, current,
                        [NoArgs EXCEPT !.test_id = test_id,
                                       !.question_id = question_id, !.csv = csv],
                        IF r.code = 0 THEN req.pc ELSE "done", NoLocals, r)
    /\ UNCHANGED <<db, resp>>

\* test_question_add: SELECT max(position)
tqa_position ==
  \E w \in Workers :
    /\ At(w, "test_question_add", "select_pos")
    /\ LET positions == {r.position : r \in TestQuestions(db, procs[w].args.test_id)}
       IN procs' = [procs EXCEPT
                      ![w].pc = "commit",
                      ![w].loc.next_pos =
                         IF positions = {} THEN 0 ELSE Max(positions) + 1]
    /\ UNCHANGED <<db, resp>>

\* test_question_add whose commit is not wrapped in try/except: the variant
\* C25 is checked against
tqa_commit_uncaught ==
  \E w \in Workers :
    /\ At(w, "test_question_add", "commit")
    /\ LET row == [test_id |-> procs[w].args.test_id,
                   question_id |-> procs[w].args.question_id,
                   position |-> procs[w].loc.next_pos]
       IN IF TestQuestionConflict(db.test_questions, row)
          THEN /\ procs' = Replied(w, ServerError("test_question_add"))
               /\ UNCHANGED db
          ELSE /\ row.position <= MaxPosition
               /\ db' = [db EXCEPT !.test_questions = @ \cup {row}]
               /\ procs' = Replied(w, Ok("test_question_add",
                              [status |-> "ok", position |-> row.position]))
    /\ UNCHANGED resp

\* test_question_add: session.commit() sends the INSERT; the IntegrityError
\* of a taken key or position is caught and answered with 400
tqa_commit ==
  \E w \in Workers :
    /\ At(w, "test_question_add", "commit")
    /\ LET row == [test_id |-> procs[w].args.test_id,
                   question_id |-> procs[w].args.question_id,
                   position |-> procs[w].loc.next_pos]
       IN IF TestQuestionConflict(db.test_questions, row)
          THEN /\ procs' = Replied(w, http_error("test_question_add", 400, "Bad Request",
                              Message("Question already in test or position conflict")))
               /\ UNCHANGED db
          ELSE /\ row.position <= MaxPosition
               /\ db' = [db EXCEPT !.test_questions = @ \cup {row}]
               /\ procs' = Replied(w, Ok("test_question_add",
                              [status |-> "ok", position |-> row.position]))
    /\ UNCHANGED resp

\* test_question_del: SELECT the row
tqd_select ==
  \E w \in Workers :
    /\ At(w, "test_question_del", "select_tq")
    /\ procs' =
         IF \E r \in TestQuestions(db, procs[w].args.test_id) :
              r.question_id = procs[w].args.question_id
         THEN [procs EXCEPT ![w].pc = "commit"]
         ELSE Replied(w, http_error("test_question_del", 404, "Not found", NoDetails))
    /\ UNCHANGED <<db, resp>>

\* test_question_del: session.delete(tq), session.commit(): DELETE by
\* primary key, which deletes nothing when the row is already gone
tqd_commit ==
  \E w \in Workers :
    /\ At(w, "test_question_del", "commit")
    /\ db' = [db EXCEPT !.test_questions =
                {r \in @ : ~(r.test_id = procs[w].args.test_id
                             /\ r.question_id = procs[w].args.question_id)}]
    /\ procs' = Replied(w, Ok("test_question_del", [status |-> "ok"]))
    /\ UNCHANGED resp

\* test_question_order: parse the CSV, SELECT the current ids and compare
tqo_check ==
  \E w \in Workers :
    /\ At(w, "test_question_order", "select_ids")
    /\ LET current_ids == {r.question_id : r \in TestQuestions(db, procs[w].args.test_id)}
       IN procs' =
            IF CsvIsInvalid(procs[w].args.csv)
            THEN Replied(w, http_error("test_question_order", 400, "Bad Request",
                                       Message("Invalid CSV of ids")))
            ELSE IF ~SameIds(current_ids, procs[w].args.csv.ids)
            THEN Replied(w, http_error("test_question_order", 400, "Bad Request",
                   Message("Order list must contain exactly the same question ids as in test")))
            ELSE [procs EXCEPT ![w].pc = "commit"]
    /\ UNCHANGED <<db, resp>>

\* test_question_order: the UPDATE statements and session.commit(), taken
\* as one step
tqo_commit ==
  \E w \in Workers :
    /\ At(w, "test_question_order", "commit")
    /\ \E updated \in {reorder(db.test_questions, procs[w].args.test_id,
                               procs[w].args.csv.ids, 0)} :
         IF updated.ok
         THEN /\ db' = [db EXCEPT !.test_questions = updated.rows]
              /\ procs' = Replied(w, Ok("test_question_order", [status |-> "ok"]))
         ELSE /\ procs' = Replied(w, ServerError("test_question_order"))
              /\ UNCHANGED db
    /\ UNCHANGED resp

\* --- answer_update / answer_delete ---
\* get_current_user, the index check of answer_update, SELECT the answer.
\* answer_delete is the same request with the index -1 and no index check.
ans_select ==
  \E w \in Workers, current \in ConcCallers, answer_id \in AnswerIds,
     req \in {[op |-> "answer_update", index |-> 0],
              [op |-> "answer_update", index |-> 1],
              [op |-> "answer_delete", index |-> -1]} :
    /\ Free(w)
    /\ \E a \in {get_current_user(db, req.op, current)} :
       \E r \in {IF a.code # 0 THEN a
                 ELSE IF answer_id \notin DOMAIN db.answers
                 THEN http_error(req.op, 404, "Not found", NoDetails)
                 ELSE Pass} :
         procs' = Taken(w, req.op, current,
                        [NoArgs EXCEPT !.answer_id = answer_id, !.index = req.index],
                        IF r.code = 0 THEN "select_attempt" ELSE "done",
                        IF r.code = 0
                        THEN [NoLocals EXCEPT !.loaded = db.answers[answer_id].answer_index]
                        ELSE NoLocals,
                        r)
    /\ UNCHANGED <<db, resp>>

\* get_attempt_or_404, the owner check, the status check
ans_attempt ==
  \E w \in Workers :
    /\ procs[w].op \in {"answer_update", "answer_delete"}
    /\ procs[w].pc = "select_attempt"
    /\ \E g \in {AnswerGate(db, procs[w].op, procs[w].current, procs[w].args.answer_id)} :
         procs' = IF g.code = 0 THEN [procs EXCEPT ![w].pc = "commit"]
                  ELSE Replied(w, g)
    /\ UNCHANGED <<db, resp>>

\* ans.answer_index = index; session.commit().  The session sends an UPDATE
\* only for an attribute whose value differs from the one it loaded.
ans_commit ==
  \E w \in Workers :
    /\ procs[w].op \in {"answer_update", "answer_delete"}
    /\ procs[w].pc = "commit"
    /\ db' = IF procs[w].args.index # procs[w].loc.loaded
             THEN [db EXCEPT !.answers[procs[w].args.answer_id].answer_index =
                               procs[w].args.index]
             ELSE db
    /\ procs' = Replied(w, Ok(procs[w].op, [status |-> "ok"]))
    /\ UNCHANGED resp

\* --- attempt_finish ---
\* get_current_user, SELECT the attempt, the owner check, the status check
af_check ==
  \E w \in Workers, current \in ConcCallers, attempt_id \in AttemptIds :
    /\ Free(w)
    /\ \E a \in {get_current_user(db, "attempt_finish", current)} :
       \E r \in {IF a.code # 0 THEN a
                 ELSE IF attempt_id \notin DOMAIN db.attempts
                 THEN http_error("attempt_finish", 404, "Not found", NoDetails)
                 ELSE IF db.attempts[attempt_id].user_id # current.user_id
                 THEN http_error("attempt_finish", 403, "Forbidden", NoDetails)
                 ELSE IF db.attempts[attempt_id].status = "finished"
                 THEN Ok("attempt_finish", [status |-> "ok"])
                 ELSE Pass} :
         procs' = Taken(w, "attempt_finish", current,
                        [NoArgs EXCEPT !.attempt_id = attempt_id],
                        IF r.code = 0 THEN "commit" ELSE "done", NoLocals, r)
    /\ UNCHANGED <<db, resp>>

\* attempt.status = "finished"; session.commit()
af_commit ==
  \E w \in Workers :
    /\ At(w, "attempt_finish", "commit")
    /\ db' = [db EXCEPT !.attempts[procs[w].args.attempt_id].status = "finished"]
    /\ procs' = Replied(w, Ok("attempt_finish", [status |-> "ok"]))
    /\ UNCHANGED resp

\* DbContent with question 1 in the test and the test activated; and the
\* same store after user 2 has started an attempt
DbDraft ==
  LET d1 == test_question_add_handler(DbContent, Teacher, 1, 1).db
  IN course_test_active_handler(d1, Teacher, 1, 1, TRUE).db

DbStarted == attempt_create_handler(DbDraft, Student, 1).db

(* SpecConc: two workers, from DbContent, DbDraft or DbStarted *)
InitConc ==
  /\ db \in {DbContent, DbDraft, DbStarted}
  /\ resp = NoReply
  /\ procs = [w \in Workers |-> IdleWorker]

NextConc ==
  \/ ac_lookup
  \/ ac_flush
  \/ ac_snapshot
  \/ ac_commit
  \/ tq_gate
  \/ tqa_position
  \/ tqa_commit
  \/ tqd_select
  \/ tqd_commit
  \/ tqo_check
  \/ tqo_commit
  \/ ans_select
  \/ ans_attempt
  \/ ans_commit
  \/ af_check
  \/ af_commit

SpecConc == InitConc /\ [][NextConc]_vars

\* --- question_update ---
\* the contents concurrent question_update requests are made with
ReviseInputs ==
  { [optionsCsv |-> << <<"a">>, <<"b">> >>, correctIndex |-> 0],
    [optionsCsv |-> << <<" ", "a">>, <<>>, <<"b", " ">> >>, correctIndex |-> 1],
    [optionsCsv |-> << <<"a">>, <<" ">> >>, correctIndex |-> 0] }

\* get_current_user, SELECT the question, the author check, the checks of
\* the content
qu_select ==
  \E w \in Workers, current \in ConcCallers, id \in QuestionIds,
     content \in ReviseInputs :
    /\ Free(w)
    /\ \E a \in {get_current_user(db, "question_update", current)} :
       \E r \in {IF a.code # 0 THEN a
                 ELSE IF ~QuestionFound(db, id)
                 THEN http_error("question_update", 404, "Not found", NoDetails)
                 ELSE IF /\ db.questions[id].author_id # current.user_id
                         /\ ~has_perm(current, QUEST_UPDATE)
                 THEN http_error("question_update", 403, "Forbidden",
                                 RequiredPermission(QUEST_UPDATE))
                 ELSE ContentError("question_update",
                                   parse_options(content.optionsCsv),
                                   content.correctIndex)} :
         procs' = Taken(w, "question_update", current,
                        [NoArgs EXCEPT !.question_id = id, !.content = content],
                        IF r.code = 0 THEN "select_max" ELSE "done", NoLocals, r)
    /\ UNCHANGED <<db, resp>>

\* SELECT max(version); next_version = max + 1
qu_max ==
  \E w \in Workers :
    /\ At(w, "question_update", "select_max")
    /\ procs' = [procs EXCEPT
                   ![w].pc = "commit",
                   ![w].loc.next_version =
                      max_version(db, procs[w].args.question_id) + 1]
    /\ UNCHANGED <<db, resp>>

\* a table without a primary key: the variant C21 is checked against
NoVersionKey(d, question_id, version) == FALSE

\* the primary key (question_id, version) of question_versions against the
\* committed rows
VersionKeyTaken(d, question_id, version) ==
  VersionExists(d, question_id, version)

\* session.add(v); session.commit(): INSERT INTO question_versions.  A taken
\* primary key raises IntegrityError, which question_update does not catch.
qu_commit ==
  \E w \in Workers :
    /\ At(w, "question_update", "commit")
    /\ LET id == procs[w].args.question_id
           next_version == procs[w].loc.next_version
           content == procs[w].args.content
       IN IF VersionKeyTaken(db, id, next_version)
          THEN /\ procs' = Replied(w, ServerError("question_update"))
               /\ UNCHANGED db
          ELSE /\ next_version <= MaxVersions
               /\ db' = [db EXCEPT !.question_versions = @ \cup
                           {[question_id |-> id, version |-> next_version,
                             options |-> parse_options(content.optionsCsv),
                             correct_index |-> content.correctIndex]}]
               /\ procs' = Replied(w, Ok("question_update",
                                         [id |-> id, version |-> next_version]))
    /\ UNCHANGED resp

\* users 1 and 2; user 1 has created question 1
DbOneQuestion ==
  question_create_handler(InitDb, Teacher, << <<"a">>, <<"b">> >>, 0).db

(* SpecRevise: two workers revise questions while questions are created *)
InitRevise ==
  /\ db = DbOneQuestion
  /\ resp = NoReply
  /\ procs = [w \in Workers |-> IdleWorker]

NextRevise ==
  \/ question_create
  \/ qu_select
  \/ qu_max
  \/ qu_commit

SpecRevise == InitRevise /\ [][NextRevise]_vars

(* SpecLife: the life of a started test.  From DbOpenTest: attempts, their *)
(* answers, and the deletions and switches of what they belong to         *)
NextLife ==
  \/ course_delete
  \/ course_test_del
  \/ course_test_active
  \/ question_delete
  \/ question_get
  \/ attempt_create
  \/ attempt_finish
  \/ answer_update
  \/ answer_delete

SpecLife == InitAttempt /\ [][NextLife]_vars

\* DbContent with a third question, and test 1 composed with a gap: question
\* 1 added and removed again, then questions 2, 1, 3 at positions 1, 2, 3
DbGapped ==
  LET d1 == question_create_handler(DbContent, Teacher, << <<"a">>, <<"b">> >>, 0).db
      d2 == test_question_add_handler(d1, Teacher, 1, 1).db
      d3 == test_question_add_handler(d2, Teacher, 1, 2).db
      d4 == test_question_del_handler(d3, Teacher, 1, 1).db
      d5 == test_question_add_handler(d4, Teacher, 1, 1).db
  IN test_question_add_handler(d5, Teacher, 1, 3).db

(* SpecErrors: requests that are refused.  From DbGapped, where a reorder  *)
(* can fail after its first UPDATE, and from DbStarted, where an attempt   *)
(* exists                                                                  *)
InitErrors ==
  /\ db \in {DbGapped, DbStarted}
  /\ resp = NoReply
  /\ procs = Idle

NextErrors ==
  \/ test_question_order
  \/ test_question_del
  \/ attempt_create
  \/ attempt_finish
  \/ answer_update
  \/ course_test_active

SpecErrors == InitErrors /\ [][NextErrors]_vars

(* SpecAccess: who may read and write an attempt.  From DbOpenTest:       *)
(* attempts, their answers, the deletion of their test or course, and the *)
(* requests that read them                                                *)
NextAccess ==
  \/ course_delete
  \/ course_test_del
  \/ attempt_create
  \/ attempt_finish
  \/ answer_update
  \/ answer_delete
  \/ attempt_get
  \/ answers_get
  \/ test_user_grade
  \/ test_user_answers

SpecAccess == InitAttempt /\ [][NextAccess]_vars

(* SpecGrade: the grade report over attempts of up to MaxGraded questions  *)
(* of three options, for every choice of the correct indexes and of the   *)
(* answers given                                                          *)
ThreeOptions == << <<"a">>, <<"b">>, <<"c">> >>

\* d after question_create and test_question_add into test 1, once per
\* correct index of corrects
RECURSIVE WithQuestions(_, _)
WithQuestions(d, corrects) ==
  IF corrects = <<>> THEN d
  ELSE LET created == question_create_handler(d, Teacher, ThreeOptions, Head(corrects))
           added == test_question_add_handler(created.db, Teacher, 1, created.resp.ret.id)
       IN WithQuestions(added.db, Tail(corrects))

\* d after Student's answer_update of answer i to answers[i], for every i
\* from first on where answers[i] is not -1
RECURSIVE WithAnswers(_, _, _)
WithAnswers(d, answers, first) ==
  IF first > Len(answers) THEN d
  ELSE WithAnswers(IF answers[first] = -1 THEN d
                   ELSE answer_update_handler(d, Student, first, answers[first]).db,
                   answers, first + 1)

\* the store after the teacher has built and opened a test with one question
\* per correct index, and the student has started it and answered
GradedStore(corrects, answers) ==
  LET d1 == course_create_handler(InitDb, Teacher, 1).db
      d2 == course_test_add_handler(d1, Teacher, 1).db
      d3 == WithQuestions(d2, corrects)
      d4 == course_test_active_handler(d3, Teacher, 1, 1, TRUE).db
      d5 == attempt_create_handler(d4, Student, 1).db
  IN WithAnswers(d5, answers, 1)

Tuples(n, S) == [1..n -> S]

InitGrade ==
  /\ \E n \in 1..MaxGraded :
       \E corrects \in Tuples(n, 0..2), answers \in Tuples(n, -1..2) :
         db = GradedStore(corrects, answers)
  /\ resp = NoReply
  /\ procs = Idle

NextGrade ==
  \/ test_user_grade

SpecGrade == InitGrade /\ [][NextGrade]_vars

(* ------------------------------ accounts ------------------------------ *)
USER_BLOCK_WRITE == "user:block:write"

\* the ids a block request names: every user and one id no user has
UserIdInputs == 1..(NUsers + 1)

BlockCallers == [user_id : Users, permissions : {{}, {USER_BLOCK_WRITE}}]

\* api/users_full.py user_block_set
user_block_set_handler(d, current, id, blocked) ==
  LET op == "user_block_set" IN
  IF ~has_perm(current, USER_BLOCK_WRITE)
  THEN Result(d, http_error(op, 403, "Forbidden", RequiredPermission(USER_BLOCK_WRITE)))
  ELSE IF id = current.user_id
  THEN Result(d, http_error(op, 403, "Forbidden", Message("Cannot block/unblock yourself")))
  ELSE IF id \notin DOMAIN d.users
  THEN Result(d, http_error(op, 404, "Not found", NoDetails))
  ELSE Result([d EXCEPT !.users[id].is_blocked = blocked], Ok(op, [status |-> "ok"]))

user_block_set ==
  \E current \in BlockCallers, id \in UserIdInputs, blocked \in BOOLEAN :
    \E r \in {Authenticated(db, "user_block_set", current,
                 user_block_set_handler(db, current, id, blocked))} :
      /\ db' = r.db
      /\ resp' = r.resp
      /\ UNCHANGED procs

(* SpecBlock: accounts blocked and unblocked between the requests of an    *)
(* attempt, from DbOpenTest                                                *)
NextBlock ==
  \/ user_block_set
  \/ attempt_create
  \/ attempt_finish
  \/ answer_update
  \/ attempt_get

SpecBlock == InitAttempt /\ [][NextBlock]_vars

(* SpecBank: the question bank.  From DbOneQuestion: questions created,   *)
(* revised, read and deleted by their author and by others                *)
InitBank ==
  /\ db = DbOneQuestion
  /\ resp = NoReply
  /\ procs = Idle

NextBank ==
  \/ question_create
  \/ question_update
  \/ question_delete
  \/ question_get

SpecBank == InitBank /\ [][NextBank]_vars

(* SpecPercent: the percentage of the grade report, for every count of    *)
(* answers up to MaxTotal and every count of correct ones.  The counts are *)
(* held in the reply's ret until the report is made                        *)
Counted(correct, total) ==
  Reply("none", 0, "", NoDetails, [correct |-> correct, total |-> total])

InitPercent ==
  /\ db = InitDb
  /\ \E total \in 1..MaxTotal : \E correct \in 0..total :
       resp = Counted(correct, total)
  /\ procs = Idle

\* api/teacher_tests.py test_user_grade, from the two counts to the reply
grade_report ==
  /\ resp.op = "none"
  /\ resp' = Ok("test_user_grade",
               [correct |-> resp.ret.correct, total |-> resp.ret.total,
                grade_percent |-> grade_percent(resp.ret.correct, resp.ret.total)])
  /\ UNCHANGED <<db, procs>>

NextPercent ==
  \/ grade_report

SpecPercent == InitPercent /\ [][NextPercent]_vars

(* ------------------------------ properties ---------------------------- *)
\* every token a test_question request can arrive with
EditCallers ==
  AnyCallers \cup Callers(TEST_QUEST_ADD) \cup Callers(TEST_QUEST_DEL)
             \cup Callers(TEST_QUEST_UPDATE)

\* the outcomes of every test_question_add, test_question_del and
\* test_question_order request that current can make on test_id in store d
EditOutcomes(d, current, test_id) ==
  {Authenticated(d, "test_question_add", current,
                 test_question_add_handler(d, current, test_id, q)) : q \in QuestionIds}
  \cup
  {Authenticated(d, "test_question_del", current,
                 test_question_del_handler(d, current, test_id, q)) : q \in QuestionIds}
  \cup
  {Authenticated(d, "test_question_order", current,
                 test_question_order_handler(d, current, test_id, csv)) : csv \in OrderCsvInputs}

HasAttempts == Message("Test has attempts, modification forbidden")

\* C1 as stated: once a test has an attempt, every test_question_add,
\* test_question_del and test_question_order on it, by whatever caller, is
\* answered 400 'Test has attempts, modification forbidden' and leaves the
\* test's questions and positions as they were.
C1_EveryEditIsStateConflict ==
  \A test_id \in TestIds, current \in EditCallers :
    attempts_cnt(db, test_id) > 0 =>
      \A r \in EditOutcomes(db, current, test_id) :
        /\ r.resp.code = 400
        /\ r.resp.details = HasAttempts
        /\ TestQuestions(r.db, test_id) = TestQuestions(db, test_id)

\* C1 amended: once a test has an attempt, every test_question_add,
\* test_question_del and test_question_order on it, by whatever caller that
\* get_current_user lets through, leaves the test's questions and positions
\* as they were; it is answered 400 'Test has attempts, modification
\* forbidden' while the test and its course are not soft-deleted, and 404
\* once either is.
C1_EditRefusedOnceAttempted ==
  \A test_id \in TestIds, current \in EditCallers :
    attempts_cnt(db, test_id) > 0 =>
      \A r \in EditOutcomes(db, current, test_id) :
        /\ TestQuestions(r.db, test_id) = TestQuestions(db, test_id)
        /\ r.db = db
        /\ IF TestFound(db, test_id) /\ CourseFound(db, db.tests[test_id].course_id)
           THEN r.resp.code = 400 /\ r.resp.details = HasAttempts
           ELSE r.resp.code = 404

\* a test_question request on a test that has an attempt has just been
\* refused with the state conflict
C1_Witness ==
  /\ resp.op \in {"test_question_add", "test_question_del", "test_question_order"}
  /\ resp.code = 400
  /\ resp.details = HasAttempts
  /\ \E test_id \in TestIds : attempts_cnt(db, test_id) > 0 /\ TestFound(db, test_id)

\* C3: on an active, not deleted test with at least one question, two
\* attempt_create calls of the same user, one straight after the other, both
\* succeed with the same attempt id, and the second leaves every table as
\* the first left it.
C3_CreateTwiceSameAttempt ==
  \A test_id \in TestIds, current \in AnyCallers :
    (/\ TestFound(db, test_id)
     /\ db.tests[test_id].is_active
     /\ TestQuestions(db, test_id) # {}) =>
      LET first == Authenticated(db, "attempt_create", current,
                                 attempt_create_handler(db, current, test_id))
          second == Authenticated(first.db, "attempt_create", current,
                                  attempt_create_handler(first.db, current, test_id))
      IN /\ first.resp.code = 200
         /\ second.resp.code = 200
         /\ second.resp.ret.id = first.resp.ret.id
         /\ second.db = first.db

\* the user who holds attempt 1 has called attempt_create again after
\* attempt 2 was created, and was given attempt 1
C3_Witness ==
  /\ resp.op = "attempt_create"
  /\ resp.code = 200
  /\ resp.ret.id = 1
  /\ 2 \in DOMAIN db.attempts
  /\ \A a \in DOMAIN db.attempts : db.attempts[a].test_id = db.attempts[1].test_id

\* C6: an attempt is graded against the question versions that were the
\* latest when it was created.  Every answer row is created with the latest
\* version of its question, no step changes that version number or the
\* version row it joins to, and a question_update, whatever it publishes,
\* leaves the correct count, total and grade_percent of test_user_grade and
\* the entries of test_user_answers of every attempt as they were.
C6_GradedAgainstPinnedVersion ==
  [][/\ \A a \in DOMAIN db'.answers \ DOMAIN db.answers :
          db'.answers[a].question_version =
            max_version(db, db'.answers[a].question_id)
     /\ \A a \in DOMAIN db.answers :
          /\ db'.answers[a].question_version = db.answers[a].question_version
          /\ JoinedVersions(db', db'.answers[a]) = JoinedVersions(db, db.answers[a])
     /\ resp'.op = "question_update" =>
          \A attempt_id \in DOMAIN db.attempts :
            /\ Grade(db', db.attempts[attempt_id].test_id,
                     db.attempts[attempt_id].user_id, attempt_id)
               = Grade(db, db.attempts[attempt_id].test_id,
                       db.attempts[attempt_id].user_id, attempt_id)
            /\ Reviews(db', attempt_id) = Reviews(db, attempt_id)]_vars

\* test_user_grade has just counted as correct an answer that equals the
\* correct_index of the version it is pinned to, while a later version of
\* the question with another correct_index exists
C6_Witness ==
  /\ resp.op = "test_user_grade"
  /\ resp.code = 200
  /\ resp.ret.correct = 1
  /\ \E a \in DOMAIN db.answers, pinned \in db.question_versions,
        latest \in db.question_versions :
       /\ db.answers[a].attempt_id = resp.ret.attempt_id
       /\ pinned.question_id = db.answers[a].question_id
       /\ pinned.version = db.answers[a].question_version
       /\ latest.question_id = db.answers[a].question_id
       /\ latest.version = max_version(db, db.answers[a].question_id)
       /\ latest.version > pinned.version
       /\ latest.correct_index # pinned.correct_index
       /\ db.answers[a].answer_index = pinned.correct_index

\* C7: attempt_finish by the attempt's owner succeeds, sets the status to
\* 'finished' and changes nothing else; called again at once it succeeds
\* again and changes nothing at all.
C7_FinishIsIdempotent ==
  \A attempt_id \in DOMAIN db.attempts, current \in AnyCallers :
    current.user_id = db.attempts[attempt_id].user_id =>
      LET first == Authenticated(db, "attempt_finish", current,
                                 attempt_finish_handler(db, current, attempt_id))
          second == Authenticated(first.db, "attempt_finish", current,
                                  attempt_finish_handler(first.db, current, attempt_id))
      IN /\ first.resp = Ok("attempt_finish", [status |-> "ok"])
         /\ first.db = [db EXCEPT !.attempts[attempt_id].status = "finished"]
         /\ second.resp = Ok("attempt_finish", [status |-> "ok"])
         /\ second.db = first.db

\* an owner's attempt_finish has just succeeded and the attempt is finished
C7_Witness ==
  /\ resp.op = "attempt_finish"
  /\ resp.code = 200
  /\ \E a \in DOMAIN db.attempts : db.attempts[a].status = "finished"

\* C8: no step removes an attempt row, changes its test_id or user_id, or
\* takes it out of 'finished'; a status is in_progress or finished.
C8_StatusOnlyForward ==
  [][\A a \in DOMAIN db.attempts :
       /\ a \in DOMAIN db'.attempts
       /\ db'.attempts[a].test_id = db.attempts[a].test_id
       /\ db'.attempts[a].user_id = db.attempts[a].user_id
       /\ db'.attempts[a].status \in {"in_progress", "finished"}
       /\ db.attempts[a].status = "finished" => db'.attempts[a].status = "finished"]_vars

\* the owner of a finished attempt has called attempt_create again, got the
\* attempt back, and it is still finished
C8_Witness ==
  /\ resp.op = "attempt_create"
  /\ resp.code = 200
  /\ resp.ret.id \in DOMAIN db.attempts
  /\ db.attempts[resp.ret.id].status = "finished"

AlreadyFinished == Message("Attempt already finished")

\* the answers of finished attempts, each with the tokens of its owner
FinishedAnswers ==
  {x \in (DOMAIN db.answers) \X AnyCallers :
     /\ db.attempts[db.answers[x[1]].attempt_id].status = "finished"
     /\ db.attempts[db.answers[x[1]].attempt_id].user_id = x[2].user_id}

\* C9 as stated: on an answer of a finished attempt, every answer_update
\* and answer_delete of the owner is answered 400 'Attempt already finished'
\* and leaves the answer as it was.
C9_EveryWriteIsStateConflict ==
  \A x \in FinishedAnswers :
    \A r \in {Authenticated(db, "answer_update", x[2],
                            answer_update_handler(db, x[2], x[1], index)) :
                index \in AnswerIndexInputs}
             \cup {Authenticated(db, "answer_delete", x[2],
                                 answer_delete_handler(db, x[2], x[1]))} :
      /\ r.resp.code = 400
      /\ r.resp.details = AlreadyFinished
      /\ r.db = db

\* C9 amended: on an answer of a finished attempt, the owner's answer_delete
\* and answer_update with an index >= 0 are answered 400 'Attempt already
\* finished'; answer_update with an index < 0 is answered 400 'index must be
\* >= 0 (use answer_delete to reset to -1)'; none of them changes the answer
\* or anything else.
C9_NoWriteOnceFinished ==
  \A x \in FinishedAnswers :
    /\ \A index \in AnswerIndexInputs :
         LET r == Authenticated(db, "answer_update", x[2],
                                answer_update_handler(db, x[2], x[1], index))
         IN /\ r.db = db
            /\ r.resp.code = 400
            /\ r.resp.details =
                 IF index >= 0 THEN AlreadyFinished
                 ELSE Message("index must be >= 0 (use answer_delete to reset to -1)")
    /\ LET r == Authenticated(db, "answer_delete", x[2],
                              answer_delete_handler(db, x[2], x[1]))
       IN /\ r.db = db
          /\ r.resp.code = 400
          /\ r.resp.details = AlreadyFinished

\* a write to an answer has just been refused because the attempt is
\* finished
C9_Witness ==
  /\ resp.op \in {"answer_update", "answer_delete"}
  /\ resp.code = 400
  /\ resp.details = AlreadyFinished
  /\ \E a \in DOMAIN db.attempts : db.attempts[a].status = "finished"

\* C2: no commit that follows the commit of an attempt of a test inserts,
\* deletes or repositions a test_questions row of that test.
C2_NoEditAfterAttemptCommitted ==
  [][\A test_id \in TestIds :
       attempts_cnt(db, test_id) > 0 =>
         TestQuestions(db', test_id) = TestQuestions(db, test_id)]_vars

\* two attempt_create requests of the same user on the same test
SameKeyCreates ==
  {x \in Workers \X Workers :
     /\ x[1] # x[2]
     /\ procs[x[1]].op = "attempt_create" /\ procs[x[2]].op = "attempt_create"
     /\ procs[x[1]].args.test_id = procs[x[2]].args.test_id
     /\ procs[x[1]].current.user_id = procs[x[2]].current.user_id}

\* C4: two attempt_create requests of the same user on the same test, when
\* both have ended, have both succeeded, with the same attempt id.
C4_ConcurrentCreatesBothSucceed ==
  \A x \in SameKeyCreates :
    (procs[x[1]].pc = "done" /\ procs[x[2]].pc = "done") =>
      /\ procs[x[1]].reply.code = 200
      /\ procs[x[2]].reply.code = 200
      /\ procs[x[1]].reply.ret.id = procs[x[2]].reply.ret.id

\* C5: no two attempts rows have the same (test_id, user_id), whatever the
\* interleaving of the requests.
C5_OneAttemptPerTestAndUser ==
  \A a, b \in DOMAIN db.attempts :
    (/\ db.attempts[a].test_id = db.attempts[b].test_id
     /\ db.attempts[a].user_id = db.attempts[b].user_id) => a = b

\* two attempt_create requests of the same user on the same test both got
\* past the lookup; one has committed its attempt and the other has been
\* stopped at its INSERT
C5_Witness ==
  \E x \in SameKeyCreates :
    /\ procs[x[1]].pc = "done" /\ procs[x[2]].pc = "done"
    /\ procs[x[1]].reply.code = 200
    /\ procs[x[2]].reply.code = 500
    /\ ExistingAttempts(db, procs[x[1]].args.test_id,
                        procs[x[1]].current.user_id) = {procs[x[1]].reply.ret.id}

\* C10: no commit that follows the commit of an attempt's status 'finished'
\* changes the answer_index of an answer of that attempt.
C10_AnswersFrozenOnceFinished ==
  [][\A a \in DOMAIN db.answers :
       db.attempts[db.answers[a].attempt_id].status = "finished" =>
         db'.answers[a].answer_index = db.answers[a].answer_index]_vars

\* the number of options of the question version an answer is pinned to
PinnedOptionsCount(d, answer_id) ==
  LET v == CHOOSE v \in JoinedVersions(d, d.answers[answer_id]) : TRUE
  IN Len(v.options)

\* C11: answer_update with an index below 0 or not below the number of
\* options of the answer's pinned version fails, whoever calls it, and leaves
\* the store, the answer's answer_index included, as it was.
C11_IndexOutsideOptionsRejected ==
  \A answer_id \in DOMAIN db.answers, current \in AnyCallers,
     index \in AnswerIndexInputs :
    (index < 0 \/ index >= PinnedOptionsCount(db, answer_id)) =>
      LET r == Authenticated(db, "answer_update", current,
                             answer_update_handler(db, current, answer_id, index))
      IN /\ r.resp.code = 400
            \/ r.resp.code = 403
         /\ r.db = db

\* C12: every answer is unanswered (-1) or holds the index of an option of
\* the question version it is pinned to.
C12_AnswerIndexWithinOptions ==
  \A answer_id \in DOMAIN db.answers :
    \/ db.answers[answer_id].answer_index = -1
    \/ /\ 0 <= db.answers[answer_id].answer_index
       /\ db.answers[answer_id].answer_index < PinnedOptionsCount(db, answer_id)

\* the attempt_questions rows of an attempt
SnapshotOf(d, attempt_id) ==
  {r \in d.attempt_questions : r.attempt_id = attempt_id}

\* the answers of an attempt and its snapshot rows match one to one on
\* (question_id, question_version)
OneAnswerPerSnapshotRow(d, attempt_id) ==
  /\ \A r \in SnapshotOf(d, attempt_id) :
       Cardinality({a \in AnswersOf(d, attempt_id) :
                      d.answers[a].question_id = r.question_id}) = 1
  /\ \A a \in AnswersOf(d, attempt_id) :
       \E r \in SnapshotOf(d, attempt_id) :
         /\ r.question_id = d.answers[a].question_id
         /\ r.question_version = d.answers[a].question_version
  /\ \A r1, r2 \in SnapshotOf(d, attempt_id) :
       r1.question_id = r2.question_id => r1 = r2

\* C13: the step that creates an attempt gives it one snapshot row per
\* question of the test, with the question's id, its position and its latest
\* version, and answers that all hold -1; after every step each attempt has
\* exactly one answer per snapshot row, pinned to the row's question and
\* version.
C13_SnapshotAndAnswersAtCreation ==
  [][/\ \A a \in DOMAIN db'.attempts \ DOMAIN db.attempts :
          /\ {[question_id |-> r.question_id, position |-> r.position,
               question_version |-> r.question_version] : r \in SnapshotOf(db', a)}
             = {[question_id |-> q.question_id, position |-> q.position,
                 question_version |-> max_version(db, q.question_id)] :
                  q \in TestQuestions(db, db'.attempts[a].test_id)}
          /\ SnapshotOf(db', a) # {}
          /\ \A x \in AnswersOf(db', a) : db'.answers[x].answer_index = -1
     /\ \A a \in DOMAIN db'.attempts : OneAnswerPerSnapshotRow(db', a)]_vars

\* an attempt created when question versions 1 and 2 existed is pinned to
\* version 2, and one of its answers has since been set
C13_Witness ==
  /\ resp.op = "answer_update"
  /\ resp.code = 200
  /\ \E a \in DOMAIN db.attempts :
       /\ Cardinality(SnapshotOf(db, a)) = 2
       /\ \E r \in SnapshotOf(db, a) : r.question_version = 2
       /\ \E x \in AnswersOf(db, a) : db.answers[x].answer_index # -1

\* C14: an attempt_create request changes the committed store only in the
\* step that commits and answers 200; when it ends in an error, after its
\* INSERT of the attempt or before, the store is as it was and nothing the
\* request wrote is left pending.
C14_FailedCreatePersistsNothing ==
  [][\A w \in Workers :
       (procs'[w] # procs[w] /\ procs'[w].op = "attempt_create") =>
         /\ (procs'[w].pc = "done" /\ procs'[w].reply.code = 200) \/ db' = db
         /\ (procs'[w].pc = "done" /\ procs'[w].reply.code # 200) =>
              (db' = db /\ ~procs'[w].loc.pending)]_vars

\* an attempt_create that had inserted its attempt found the test without
\* questions, and no attempt of its user is in the store
C14_Witness ==
  \E w \in Workers :
    /\ procs[w].op = "attempt_create"
    /\ procs[w].pc = "done"
    /\ procs[w].reply.code = 400
    /\ procs[w].reply.details = Message("Test has no questions")
    /\ ExistingAttempts(db, procs[w].args.test_id, procs[w].current.user_id) = {}
    /\ db.attempt_questions = {}

\* request outcome r leaves the snapshot rows of every attempt of db as
\* they are
KeepsSnapshots(r) ==
  \A a \in DOMAIN db.attempts : SnapshotOf(r.db, a) = SnapshotOf(db, a)

\* C15: in every state, whatever request comes next (an answer, attempt,
\* question, test-composition, test or course operation, by any caller), the
\* attempt_questions rows of the attempts that exist are neither added to,
\* removed nor changed.
C15_SnapshotNeverMutated ==
  \A current \in AnyCallers :
    /\ \A x \in AnswerIds, index \in AnswerIndexInputs :
         /\ KeepsSnapshots(Authenticated(db, "answer_update", current,
                             answer_update_handler(db, current, x, index)))
         /\ KeepsSnapshots(Authenticated(db, "answer_delete", current,
                             answer_delete_handler(db, current, x)))
    /\ \A a \in AttemptIds :
         KeepsSnapshots(Authenticated(db, "attempt_finish", current,
                          attempt_finish_handler(db, current, a)))
    /\ \A q \in QuestionIds :
         /\ KeepsSnapshots(Authenticated(db, "question_delete", current,
                             question_delete_handler(db, current, q)))
         /\ \A content \in ContentInputs :
              KeepsSnapshots(Authenticated(db, "question_update", current,
                 question_update_handler(db, current, q, content.optionsCsv,
                                         content.correctIndex)))
    /\ \A t \in TestIds :
         /\ KeepsSnapshots(Authenticated(db, "attempt_create", current,
                             attempt_create_handler(db, current, t)))
         /\ \A r \in EditOutcomes(db, current, t) : KeepsSnapshots(r)
         /\ \A c \in CourseIds :
              /\ KeepsSnapshots(Authenticated(db, "course_test_del", current,
                                  course_test_del_handler(db, current, c, t)))
              /\ \A active \in BOOLEAN :
                   KeepsSnapshots(Authenticated(db, "course_test_active", current,
                      course_test_active_handler(db, current, c, t, active)))
    /\ \A c \in CourseIds :
         /\ KeepsSnapshots(Authenticated(db, "course_delete", current,
                             course_delete_handler(db, current, c)))
         /\ KeepsSnapshots(Authenticated(db, "course_test_add", current,
                             course_test_add_handler(db, current, c)))

\* a question pinned by an attempt has just been soft-deleted and the
\* attempt still has its snapshot row
C15_Witness ==
  /\ resp.op = "question_delete"
  /\ resp.code = 200
  /\ \E r \in db.attempt_questions :
       /\ r.attempt_id \in DOMAIN db.attempts
       /\ db.questions[r.question_id].is_deleted

\* the answer_index of the answers of an attempt, in the order of their ids
AnswerIndexes(d, attempt_id) ==
  LET ids == OrderById(AnswersOf(d, attempt_id))
  IN [i \in 1..Len(ids) |-> d.answers[ids[i]].answer_index]

\* the correct_index of the version each of those answers is pinned to
PinnedCorrects(d, attempt_id) ==
  LET ids == OrderById(AnswersOf(d, attempt_id))
  IN [i \in 1..Len(ids) |->
        (CHOOSE v \in d.question_versions :
           /\ v.question_id = d.answers[ids[i]].question_id
           /\ v.version = d.answers[ids[i]].question_version).correct_index]

\* C16: for every attempt, test_user_grade asked by the course teacher
\* returns total = the number of the attempt's answers and correct = the
\* number of them that are not -1 and equal the correct_index of their
\* pinned version, so correct <= the number of answered slots <= total; for
\* pinned correct indexes [1,0,2,1] and answers [1,-1,2,0] it returns
\* correct 2, total 4, grade_percent 50; and the grade computed for an
\* attempt without answers is correct 0, total 0, grade_percent 0.
C16_GradeCountsPinnedMatches ==
  \A a \in DOMAIN db.attempts :
    LET attempt == db.attempts[a]
        answers == AnswerIndexes(db, a)
        corrects == PinnedCorrects(db, a)
        teacher == [user_id |-> db.courses[db.tests[attempt.test_id].course_id].teacher_id,
                    permissions |-> {}]
        r == Authenticated(db, "test_user_grade", teacher,
               test_user_grade_handler(db, teacher, attempt.test_id, attempt.user_id))
        none == Grade([db EXCEPT !.answers = EmptyTable],
                      attempt.test_id, attempt.user_id, a)
    IN /\ r.db = db
       /\ r.resp.code = 200
       /\ r.resp.ret.attempt_id = a
       /\ r.resp.ret.total = Len(answers)
       /\ r.resp.ret.correct =
            Cardinality({i \in 1..Len(answers) :
                           answers[i] # -1 /\ answers[i] = corrects[i]})
       /\ r.resp.ret.correct <= Cardinality({i \in 1..Len(answers) : answers[i] # -1})
       /\ r.resp.ret.correct <= r.resp.ret.total
       /\ (corrects = <<1, 0, 2, 1>> /\ answers = <<1, -1, 2, 0>>) =>
            /\ r.resp.ret.correct = 2
            /\ r.resp.ret.total = 4
            /\ r.resp.ret.grade_percent = 50
       /\ none.total = 0 /\ none.correct = 0 /\ none.grade_percent = 0

\* test_user_grade has just answered correct 2, total 4, grade_percent 50
\* for pinned correct indexes [1,0,2,1] and answers [1,-1,2,0]
C16_Witness ==
  /\ resp.op = "test_user_grade"
  /\ resp.code = 200
  /\ resp.ret.correct = 2
  /\ resp.ret.total = 4
  /\ resp.ret.grade_percent = 50
  /\ PinnedCorrects(db, resp.ret.attempt_id) = <<1, 0, 2, 1>>
  /\ AnswerIndexes(db, resp.ret.attempt_id) = <<1, -1, 2, 0>>

\* the answers of the attempts that are in progress
OpenAnswers ==
  {x \in DOMAIN db.answers : db.attempts[db.answers[x].attempt_id].status = "in_progress"}

\* C17: in every state, answer_delete called by the owner of an in_progress
\* attempt on any of its answers, whatever its index, course or test state,
\* answers {"status": "ok"} and leaves the store as it was except that
\* answer's answer_index, which is -1; a second call answers the same and
\* changes nothing more.
C17_ClearAlwaysSucceedsAndIsIdempotent ==
  \A x \in OpenAnswers, permissions \in {{}, Perms} :
    LET owner == [user_id |-> db.attempts[db.answers[x].attempt_id].user_id,
                  permissions |-> permissions]
        first == Authenticated(db, "answer_delete", owner,
                   answer_delete_handler(db, owner, x))
        second == Authenticated(first.db, "answer_delete", owner,
                    answer_delete_handler(first.db, owner, x))
    IN /\ first.resp = Ok("answer_delete", [status |-> "ok"])
       /\ first.db = [db EXCEPT !.answers[x].answer_index = -1]
       /\ first.db.answers[x].answer_index = -1
       /\ second.resp = first.resp
       /\ second.db = first.db

\* answer_delete has just succeeded on an attempt in progress: one of its
\* answers is unanswered while another one is still set
C17_Witness ==
  /\ resp.op = "answer_delete"
  /\ resp.code = 200
  /\ \E x \in OpenAnswers, y \in OpenAnswers :
       /\ db.answers[x].attempt_id = db.answers[y].attempt_id
       /\ db.answers[x].answer_index = -1
       /\ db.answers[y].answer_index >= 0

\* the ways a list of ids is no permutation of the set ids
MissingId(ids, list) == \E q \in ids : \A i \in 1..Len(list) : list[i] # q
ExtraId(ids, list) == \E i \in 1..Len(list) : list[i] \notin ids
DuplicateId(list) == \E i \in 1..Len(list), j \in 1..Len(list) : i # j /\ list[i] = list[j]

OrderMismatch ==
  Message("Order list must contain exactly the same question ids as in test")

\* C18: in every state and for every test, test_question_order with a list
\* of ids that misses one of the test's question ids, holds an id that is
\* not in the test, or repeats an id leaves every test_questions row as it
\* is, whoever calls; and called by the course teacher on a test without
\* attempts it is answered 400 'Order list must contain exactly the same
\* question ids as in test'.
C18_NonPermutationOrderRejected ==
  \A test_id \in TestIds, csv \in OrderCsvInputs, current \in EditCallers :
    LET ids == {r.question_id : r \in TestQuestions(db, test_id)}
        r == Authenticated(db, "test_question_order", current,
               test_question_order_handler(db, current, test_id, csv))
    IN (csv.valid /\ (MissingId(ids, csv.ids) \/ ExtraId(ids, csv.ids)
                                              \/ DuplicateId(csv.ids))) =>
         /\ r.db = db
         /\ r.resp.code # 200
         /\ ( /\ TestCourseFound(db, test_id)
              /\ attempts_cnt(db, test_id) = 0
              /\ is_teacher(db, db.tests[test_id].course_id, current.user_id) ) =>
              r.resp = http_error("test_question_order", 400, "Bad Request", OrderMismatch)

\* test_question_order has just refused a list that is no permutation of the
\* ids of a test that has questions
C18_Witness ==
  /\ resp.op = "test_question_order"
  /\ resp.code = 400
  /\ resp.details = OrderMismatch
  /\ \E test_id \in TestIds : Cardinality(TestQuestions(db, test_id)) = 2

\* the (question, version) pairs pinned by the attempts that exist
PinnedVersions ==
  {<<r.question_id, r.question_version>> :
     r \in {x \in db.attempt_questions : x.attempt_id \in DOMAIN db.attempts}}

\* the callers entitled to read version pv[2] of question pv[1]: its
\* author, a holder of quest:read, the owner of an attempt pinning it
EntitledReaders(pv) ==
  {current \in AnyCallers \cup Callers(QUEST_READ) :
     \/ db.questions[pv[1]].author_id = current.user_id
     \/ has_perm(current, QUEST_READ)
     \/ \E r \in db.attempt_questions :
          /\ r.attempt_id \in DOMAIN db.attempts
          /\ db.attempts[r.attempt_id].user_id = current.user_id
          /\ <<r.question_id, r.question_version>> = pv}

\* C19: in every state, for every soft-deleted question and every version
\* of it pinned by an attempt, question_get by its author, by a holder of
\* quest:read or by the owner of an attempt pinning it answers 200 with the
\* options and correct index of that version.
C19_DeletedQuestionPinnedVersionReadable ==
  \A pv \in PinnedVersions :
    db.questions[pv[1]].is_deleted =>
      \A current \in EntitledReaders(pv) :
        LET r == Authenticated(db, "question_get", current,
                   question_get_handler(db, current, pv[1], pv[2]))
        IN /\ r.resp.code = 200
           /\ r.resp.ret.options = VersionRow(db, pv[1], pv[2]).options
           /\ r.resp.ret.correctIndex = VersionRow(db, pv[1], pv[2]).correct_index

\* the outcomes of every request current can make in store d, whatever the
\* operation and its arguments
RequestOutcomes(d, current) ==
  {Authenticated(d, "answer_update", current,
     answer_update_handler(d, current, x, index)) :
       x \in AnswerIds, index \in AnswerIndexInputs}
  \cup {Authenticated(d, "answer_delete", current,
          answer_delete_handler(d, current, x)) : x \in AnswerIds}
  \cup {Authenticated(d, "attempt_finish", current,
          attempt_finish_handler(d, current, a)) : a \in AttemptIds}
  \cup {Authenticated(d, "attempt_create", current,
          attempt_create_handler(d, current, t)) : t \in TestIds}
  \cup {Authenticated(d, "question_create", current,
          question_create_handler(d, current, content.optionsCsv,
                                  content.correctIndex)) : content \in ContentInputs}
  \cup {Authenticated(d, "question_update", current,
          question_update_handler(d, current, q, content.optionsCsv,
                                  content.correctIndex)) :
            q \in QuestionIds, content \in ContentInputs}
  \cup {Authenticated(d, "question_delete", current,
          question_delete_handler(d, current, q)) : q \in QuestionIds}
  \cup {Authenticated(d, "question_get", current,
          question_get_handler(d, current, q, v)) :
            q \in QuestionIds, v \in 1..MaxVersions}
  \cup UNION {EditOutcomes(d, current, t) : t \in TestIds}
  \cup {Authenticated(d, "course_create", current,
          course_create_handler(d, current, u)) : u \in Users}
  \cup {Authenticated(d, "course_delete", current,
          course_delete_handler(d, current, c)) : c \in CourseIds}
  \cup {Authenticated(d, "course_test_add", current,
          course_test_add_handler(d, current, c)) : c \in CourseIds}
  \cup {Authenticated(d, "course_test_del", current,
          course_test_del_handler(d, current, c, t)) : c \in CourseIds, t \in TestIds}
  \cup {Authenticated(d, "course_test_active", current,
          course_test_active_handler(d, current, c, t, active)) :
            c \in CourseIds, t \in TestIds, active \in BOOLEAN}

\* C20: in every state, whatever request comes next and whoever makes it,
\* every question_versions row is still there, unchanged, afterwards; a
\* question_update that succeeds changes nothing but question_versions,
\* to which it adds one row, of that question, with a version number the
\* question did not have; a question_delete that succeeds changes nothing
\* but the is_deleted flag of that question.
C20_VersionsNeverModifiedOrDeleted ==
  \A current \in AnyCallers :
    /\ \A r \in RequestOutcomes(db, current) :
         db.question_versions \subseteq r.db.question_versions
    /\ \A q \in QuestionIds, content \in ContentInputs :
         LET r == Authenticated(db, "question_update", current,
                    question_update_handler(db, current, q, content.optionsCsv,
                                            content.correctIndex))
             added == r.db.question_versions \ db.question_versions
         IN /\ [r.db EXCEPT !.question_versions = db.question_versions] = db
            /\ IF r.resp.code = 200
               THEN /\ Cardinality(added) = 1
                    /\ \A v \in added :
                         /\ v.question_id = q
                         /\ ~VersionExists(db, q, v.version)
               ELSE added = {}
    /\ \A q \in QuestionIds :
         LET r == Authenticated(db, "question_delete", current,
                    question_delete_handler(db, current, q))
         IN r.db = IF r.resp.code = 200
                   THEN [db EXCEPT !.questions[q].is_deleted = TRUE]
                   ELSE db

\* question_update has just added version 2 of a question whose version 1,
\* pinned by an attempt, is still stored next to it
C20_Witness ==
  /\ resp.op = "question_update"
  /\ resp.code = 200
  /\ resp.ret.version = 2
  /\ VersionExists(db, resp.ret.id, 1)
  /\ VersionExists(db, resp.ret.id, 2)
  /\ <<resp.ret.id, 1>> \in PinnedVersions

\* the version numbers of question q
VersionsOf(d, q) == {v.version : v \in {x \in d.question_versions : x.question_id = q}}

\* question q has one row per version number and its numbers are 1..n
Gapless(d, q) ==
  LET rows == {x \in d.question_versions : x.question_id = q}
  IN /\ rows # {}
     /\ VersionsOf(d, q) = 1..Cardinality(rows)

\* C21: in every state, concurrent question_update requests included, every
\* question has one row per version number and its numbers are exactly
\* 1..n; a question_create that succeeds returns version 1 of a new
\* question, a question_update that succeeds returns the maximum + 1, and
\* both leave the numbers gapless; a concurrent question_update that was
\* answered 200 has its row stored under the version it returned, and no
\* two of them returned the same version of the same question.
C21_VersionNumbersGapless ==
  /\ \A q \in DOMAIN db.questions : Gapless(db, q)
  /\ \A current \in Callers(QUEST_CREATE) \cup Callers(QUEST_UPDATE),
        content \in ContentInputs :
       /\ LET r == Authenticated(db, "question_create", current,
                     question_create_handler(db, current, content.optionsCsv,
                                             content.correctIndex))
          IN r.resp.code = 200 =>
               /\ r.resp.ret.version = 1
               /\ r.resp.ret.id \notin DOMAIN db.questions
               /\ VersionsOf(r.db, r.resp.ret.id) = {1}
               /\ \A q \in DOMAIN r.db.questions : Gapless(r.db, q)
       /\ \A q \in QuestionIds :
            LET r == Authenticated(db, "question_update", current,
                       question_update_handler(db, current, q, content.optionsCsv,
                                               content.correctIndex))
            IN r.resp.code = 200 =>
                 /\ r.resp.ret.version = max_version(db, q) + 1
                 /\ r.resp.ret.version \notin VersionsOf(db, q)
                 /\ Gapless(r.db, q)
  /\ \A w \in Workers :
       (procs[w].op = "question_update" /\ procs[w].pc = "done"
          /\ procs[w].reply.code = 200) =>
         /\ procs[w].reply.ret.version \in VersionsOf(db, procs[w].reply.ret.id)
         /\ VersionRow(db, procs[w].reply.ret.id, procs[w].reply.ret.version).correct_index
              = procs[w].args.content.correctIndex
         /\ \A o \in Workers \ {w} :
              (procs[o].op = "question_update" /\ procs[o].pc = "done"
                 /\ procs[o].reply.code = 200) =>
                procs[o].reply.ret # procs[w].reply.ret

\* two question_update requests on the same question both read the same
\* maximum; one has added version 2 and the other was refused
C21_Witness ==
  \E w \in Workers, o \in Workers :
    /\ w # o
    /\ procs[w].op = "question_update" /\ procs[w].pc = "done"
    /\ procs[o].op = "question_update" /\ procs[o].pc = "done"
    /\ procs[w].args.question_id = procs[o].args.question_id
    /\ procs[w].reply.code = 200
    /\ procs[w].reply.ret.version = 2
    /\ procs[o].reply.code = 500
    /\ VersionsOf(db, procs[w].args.question_id) = {1, 2}

\* the number of parts of a CSV of options that hold a character other
\* than a blank
NonBlankCount(optionsCsv) ==
  Cardinality({i \in 1..Len(optionsCsv) :
                 \E j \in 1..Len(optionsCsv[i]) : optionsCsv[i][j] # " "})

\* content that must be refused: fewer than 2 non-blank options, or a
\* correctIndex outside them
BadContent(content) ==
  \/ NonBlankCount(content.optionsCsv) < 2
  \/ content.correctIndex < 0
  \/ content.correctIndex >= NonBlankCount(content.optionsCsv)

\* C22: in every state every question_versions row has at least 2 options
\* and 0 <= correct_index < the number of its options; question_create and
\* question_update with fewer than 2 non-blank options or a correctIndex
\* out of range change nothing, whoever calls, and are answered 400 when
\* the caller is allowed the operation (quest:create; the author or
\* quest:update on a question that is not deleted).
C22_VersionContentValid ==
  /\ \A v \in db.question_versions :
       /\ Len(v.options) >= 2
       /\ 0 <= v.correct_index
       /\ v.correct_index < Len(v.options)
  /\ \A current \in Callers(QUEST_CREATE) \cup Callers(QUEST_UPDATE),
        content \in ContentInputs :
       BadContent(content) =>
         /\ LET r == Authenticated(db, "question_create", current,
                       question_create_handler(db, current, content.optionsCsv,
                                               content.correctIndex))
            IN /\ r.db = db
               /\ r.resp.code # 200
               /\ has_perm(current, QUEST_CREATE) => r.resp.code = 400
         /\ \A q \in QuestionIds :
              LET r == Authenticated(db, "question_update", current,
                         question_update_handler(db, current, q, content.optionsCsv,
                                                 content.correctIndex))
              IN /\ r.db = db
                 /\ r.resp.code # 200
                 /\ ( /\ QuestionFound(db, q)
                      /\ \/ db.questions[q].author_id = current.user_id
                         \/ has_perm(current, QUEST_UPDATE) ) => r.resp.code = 400

\* question_create has just refused a correctIndex out of range, and a
\* second question has been created before
C22_Witness ==
  /\ resp.op = "question_create"
  /\ resp.code = 400
  /\ resp.details = Message("correctIndex out of range")
  /\ Cardinality(DOMAIN db.questions) = 2

\* C23: in every state the positions of the test_questions rows of each
\* test are pairwise distinct and are exactly 0 .. n-1, n being the number
\* of rows of the test.
C23_PositionsGaplessFromZero ==
  \A test_id \in TestIds :
    LET rows == TestQuestions(db, test_id)
    IN /\ \A r \in rows, o \in rows : r.position = o.position => r = o
       /\ {r.position : r \in rows} = 0..(Cardinality(rows) - 1)

\* C24: in every state, a test_question_add that succeeds returns the
\* maximum position of the test + 1, or 0 when the test has no question,
\* stores the row (test, question, that position), and changes nothing
\* else: every other test_questions row and every other table is as it
\* was.
C24_AddAppendsAfterMaximum ==
  \A current \in EditCallers, test_id \in TestIds, question_id \in QuestionIds :
    LET positions == {r.position : r \in TestQuestions(db, test_id)}
        r == Authenticated(db, "test_question_add", current,
               test_question_add_handler(db, current, test_id, question_id))
    IN r.resp.code = 200 =>
         /\ positions = {} => r.resp.ret.position = 0
         /\ positions # {} =>
              /\ \A p \in positions : p < r.resp.ret.position
              /\ r.resp.ret.position - 1 \in positions
         /\ r.db = [db EXCEPT !.test_questions = @ \cup
                      {[test_id |-> test_id, question_id |-> question_id,
                        position |-> r.resp.ret.position]}]
         /\ r.db.test_questions # db.test_questions

\* test_question_add has just stored position 2 in a test whose other
\* question is at position 1
C24_Witness ==
  /\ resp.op = "test_question_add"
  /\ resp.code = 200
  /\ resp.ret.position = 2
  /\ {r.position : r \in TestQuestions(db, 1)} = {1, 2}

\* worker w has been answered code by test_question_add
AddAnswered(w, code) ==
  /\ procs[w].op = "test_question_add"
  /\ procs[w].pc = "done"
  /\ procs[w].reply.code = code

\* C25: with requests interleaved, (test, question) and (test, position)
\* stay unique in test_questions and no test_question_add is answered 500;
\* a test_question_add of a question that is already in the test, made by a
\* caller the gate lets through, is answered 400 'Question already in test
\* or position conflict' and changes nothing; and the step in which a
\* test_question_add loses at commit is answered that 400 and leaves the
\* store as it was.
C25_AddConflictIsValidationError ==
  /\ [](/\ \A r \in db.test_questions, o \in db.test_questions :
            (r.test_id = o.test_id
               /\ (r.question_id = o.question_id \/ r.position = o.position)) => r = o
        /\ \A w \in Workers : ~AddAnswered(w, 500)
        /\ \A current \in ConcCallers, r \in db.test_questions :
             LET a == Authenticated(db, "test_question_add", current,
                        test_question_add_handler(db, current, r.test_id, r.question_id))
             IN /\ a.db = db
                /\ a.resp.code # 200 /\ a.resp.code # 500
                /\ EditGate(db, "test_question_add", current, r.test_id,
                            TEST_QUEST_ADD).code = 0 =>
                     a.resp = http_error("test_question_add", 400, "Bad Request",
                                Message("Question already in test or position conflict")))
  /\ [][\A w \in Workers :
          (At(w, "test_question_add", "commit") /\ procs'[w].pc = "done") =>
            \/ /\ procs'[w].reply.code = 200
               /\ db'.test_questions = db.test_questions \cup
                    {[test_id |-> procs[w].args.test_id,
                      question_id |-> procs[w].args.question_id,
                      position |-> procs'[w].reply.ret.position]}
            \/ /\ procs'[w].reply = http_error("test_question_add", 400, "Bad Request",
                                       Message("Question already in test or position conflict"))
               /\ db' = db]_vars

\* two concurrent test_question_add requests of different questions into
\* an empty test both computed position 0: one stored its row, the other
\* was answered 400 and stored nothing
C25_Witness ==
  \E w \in Workers, o \in Workers :
    /\ AddAnswered(w, 200) /\ procs[w].reply.ret.position = 0
    /\ AddAnswered(o, 400)
    /\ procs[o].reply.details = Message("Question already in test or position conflict")
    /\ procs[w].args.question_id # procs[o].args.question_id
    /\ db.test_questions = {[test_id |-> procs[w].args.test_id,
                             question_id |-> procs[w].args.question_id,
                             position |-> 0]}

\* C26: in every state, for every test that has no attempt (the test and
\* its course not deleted) and every caller who is not the teacher of its
\* course: test_question_add, test_question_del and test_question_order are
\* not refused with 403 when the caller holds test:quest:add,
\* test:quest:del, test:quest:update respectively, and are refused with 403
\* when the caller does not.
C26_OverridePermissionAllowsEdit ==
  \A test_id \in TestIds :
    (TestCourseFound(db, test_id) /\ attempts_cnt(db, test_id) = 0) =>
      \A perm \in {TEST_QUEST_ADD, TEST_QUEST_DEL, TEST_QUEST_UPDATE} :
        \A current \in Callers(perm) :
          ~is_teacher(db, db.tests[test_id].course_id, current.user_id) =>
            LET outcomes ==
                  IF perm = TEST_QUEST_ADD
                  THEN {Authenticated(db, "test_question_add", current,
                          test_question_add_handler(db, current, test_id, q)) :
                            q \in QuestionIds}
                  ELSE IF perm = TEST_QUEST_DEL
                  THEN {Authenticated(db, "test_question_del", current,
                          test_question_del_handler(db, current, test_id, q)) :
                            q \in QuestionIds}
                  ELSE {Authenticated(db, "test_question_order", current,
                          test_question_order_handler(db, current, test_id, csv)) :
                            csv \in OrderCsvInputs}
            IN \A r \in outcomes :
                 IF has_perm(current, perm)
                 THEN r.resp.code # 403
                 ELSE r.resp.code = 403

\* C27: in every state, for every attempt and every caller, answers_get
\* answers 200 when the caller is the attempt's owner, the teacher of the
\* course of the attempt's test, or a holder of test:answer:read, and 403
\* otherwise.
C27_AnswersReadByOwnerTeacherOrPermission ==
  \A attempt_id \in DOMAIN db.attempts, current \in Callers(TEST_ANSWER_READ) :
    LET attempt == db.attempts[attempt_id]
        r == Authenticated(db, "answers_get", current,
               answers_get_handler(db, current, attempt_id))
    IN IF \/ attempt.user_id = current.user_id
          \/ db.courses[db.tests[attempt.test_id].course_id].teacher_id = current.user_id
          \/ has_perm(current, TEST_ANSWER_READ)
       THEN r.resp.code = 200
       ELSE r.resp.code = 403

\* the callers who are neither the owner of attempt_id, nor the teacher of
\* the course of its test, nor holders of test:answer:read
Outsiders(attempt_id) ==
  {current \in Callers(TEST_ANSWER_READ) :
     /\ current.user_id # db.attempts[attempt_id].user_id
     /\ current.user_id #
          db.courses[db.tests[db.attempts[attempt_id].test_id].course_id].teacher_id
     /\ ~has_perm(current, TEST_ANSWER_READ)}

\* the replies of test_user_grade and test_user_answers to current asking
\* for the attempt attempt_id
ReviewReplies(current, attempt_id) ==
  LET attempt == db.attempts[attempt_id] IN
  {Authenticated(db, "test_user_grade", current,
     test_user_grade_handler(db, current, attempt.test_id, attempt.user_id)),
   Authenticated(db, "test_user_answers", current,
     test_user_answers_handler(db, current, attempt.test_id, attempt.user_id))}

\* C28 as stated: in every state, test_user_grade and test_user_answers
\* asked for an attempt by a caller who is neither its owner, nor the
\* teacher of the course, nor a holder of test:answer:read are answered
\* 403.
C28_OutsiderAlwaysForbidden ==
  \A attempt_id \in DOMAIN db.attempts : \A current \in Outsiders(attempt_id) :
    \A r \in ReviewReplies(current, attempt_id) : r.resp.code = 403

\* C28: in every state, test_user_grade and test_user_answers asked for an
\* attempt by such a caller never answer 200 and change nothing: they
\* answer 403 while the test and its course are not deleted, and 404 once
\* either is.
C28_OutsiderNeverGetsReview ==
  \A attempt_id \in DOMAIN db.attempts : \A current \in Outsiders(attempt_id) :
    \A r \in ReviewReplies(current, attempt_id) :
      /\ r.db = db
      /\ r.resp.code # 200
      /\ r.resp.ret = <<>>
      /\ r.resp.code = IF TestCourseFound(db, db.attempts[attempt_id].test_id)
                       THEN 403 ELSE 404

\* test_user_grade has just answered 403, and the only attempt is the
\* teacher's own: the caller was the other user, without test:answer:read
C28_Witness ==
  /\ resp.op = "test_user_grade"
  /\ resp.code = 403
  /\ DOMAIN db.attempts # {}
  /\ \A a \in DOMAIN db.attempts :
       /\ db.attempts[a].user_id = db.courses[db.tests[db.attempts[a].test_id].course_id].teacher_id
       /\ Outsiders(a) # {}

\* the replies to current, who does not own attempt_id, of attempt_get and
\* attempt_finish on it and of answer_delete and answer_update (with an
\* index of indexes) on its answers
NonOwnerOutcomes(current, attempt_id, indexes) ==
  {Authenticated(db, "attempt_get", current,
     attempt_get_handler(db, current, attempt_id)),
   Authenticated(db, "attempt_finish", current,
     attempt_finish_handler(db, current, attempt_id))}
  \cup {Authenticated(db, "answer_delete", current,
          answer_delete_handler(db, current, x)) : x \in AnswersOf(db, attempt_id)}
  \cup {Authenticated(db, "answer_update", current,
          answer_update_handler(db, current, x, index)) :
            x \in AnswersOf(db, attempt_id), index \in indexes}

NonOwners(attempt_id) ==
  {current \in AnyCallers : current.user_id # db.attempts[attempt_id].user_id}

\* C29 as stated: in every state, attempt_get, attempt_finish,
\* answer_update and answer_delete on an attempt, by a caller who does not
\* own it, whatever the permissions and the index, are answered 403 and
\* change nothing.
C29_NonOwnerAlwaysForbidden ==
  \A attempt_id \in DOMAIN db.attempts : \A current \in NonOwners(attempt_id) :
    \A r \in NonOwnerOutcomes(current, attempt_id, AnswerIndexInputs) :
      r.resp.code = 403 /\ r.db = db

\* C29: in every state, attempt_get, attempt_finish, answer_delete and
\* answer_update on an attempt, by a caller who does not own it, never
\* answer 200 and change nothing, whatever the permissions and even for
\* the course teacher: they answer 403, except answer_update with an index
\* below 0, which is answered 400 'index must be >= 0 ...'.
C29_OnlyOwnerSucceeds ==
  \A attempt_id \in DOMAIN db.attempts : \A current \in NonOwners(attempt_id) :
    /\ \A r \in NonOwnerOutcomes(current, attempt_id, AnswerIndexInputs) :
         r.resp.code # 200 /\ r.db = db
    /\ \A r \in NonOwnerOutcomes(current, attempt_id,
                                  {i \in AnswerIndexInputs : i >= 0}) :
         r.resp = http_error(r.resp.op, 403, "Forbidden", NoDetails)
    /\ \A r \in NonOwnerOutcomes(current, attempt_id,
                                  {i \in AnswerIndexInputs : i < 0}) :
         r.resp.op = "answer_update" =>
           r.resp = http_error("answer_update", 400, "Bad Request",
              Message("index must be >= 0 (use answer_delete to reset to -1)"))

\* answer_update has just been refused with 403 while the only attempt is
\* the student's: the caller was the teacher of the course
C29_Witness ==
  /\ resp.op = "answer_update"
  /\ resp.code = 403
  /\ DOMAIN db.attempts # {}
  /\ \A a \in DOMAIN db.attempts :
       /\ db.attempts[a].user_id #
            db.courses[db.tests[db.attempts[a].test_id].course_id].teacher_id
       /\ db.attempts[a].status = "in_progress"

\* the lists that test_question_order would accept for test_id and whose
\* UPDATEs fail on uq_test_questions_position after at least one of them
\* has changed a row
PartlyFailingOrders(test_id) ==
  {csv \in OrderCsvInputs :
     /\ csv.valid
     /\ SameIds({r.question_id : r \in TestQuestions(db, test_id)}, csv.ids)
     /\ ~reorder(db.test_questions, test_id, csv.ids, 0).ok
     /\ reorder(db.test_questions, test_id, csv.ids, 0).rows # db.test_questions}

\* C30: in every state, every request that is answered with an error
\* (whatever the operation, its caller and its arguments) leaves the store
\* exactly as it was; a test_question_order is answered 200 with every
\* listed question at the position of its place in the list, or changes no
\* position at all, also when its UPDATEs fail after the first; and an
\* attempt_create that creates an attempt stores its snapshot and its
\* answers with it.
C30_ErrorsLeaveStoreUnchanged ==
  \A current \in AnyCallers :
    /\ \A r \in RequestOutcomes(db, current) :
         r.resp.code # 200 => r.db = db
    /\ \A test_id \in TestIds, csv \in OrderCsvInputs :
         LET r == Authenticated(db, "test_question_order", current,
                    test_question_order_handler(db, current, test_id, csv))
         IN \/ /\ r.resp.code = 200
               /\ \A i \in 1..Len(csv.ids) :
                    [test_id |-> test_id, question_id |-> csv.ids[i],
                     position |-> i - 1] \in r.db.test_questions
            \/ /\ r.resp.code # 200
               /\ r.db = db
    /\ \A test_id \in TestIds :
         LET r == Authenticated(db, "attempt_create", current,
                    attempt_create_handler(db, current, test_id))
         IN \A a \in DOMAIN r.db.attempts \ DOMAIN db.attempts :
              /\ r.resp = Ok("attempt_create", [id |-> a])
              /\ Cardinality({x \in r.db.attempt_questions : x.attempt_id = a})
                   = Cardinality(TestQuestions(db, test_id))
              /\ Cardinality(AnswersOf(r.db, a)) = Cardinality(TestQuestions(db, test_id))

\* test_question_order has just been answered 500 on a test whose
\* positions are as before; its UPDATEs had moved a question before one of
\* them failed
C30_Witness ==
  /\ resp.op = "test_question_order"
  /\ resp.code = 500
  /\ PartlyFailingOrders(1) # {}
  /\ \A csv \in OrderCsvInputs :
       (csv.valid /\ SameIds({r.question_id : r \in TestQuestions(db, 1)}, csv.ids)
          /\ ~reorder(db.test_questions, 1, csv.ids, 0).ok) =>
         csv \in PartlyFailingOrders(1)

\* the outcomes of every request current can make in store d, the requests
\* that read an attempt included
AllOutcomes(d, current) ==
  RequestOutcomes(d, current)
  \cup {Authenticated(d, "attempt_get", current,
          attempt_get_handler(d, current, a)) : a \in AttemptIds}
  \cup {Authenticated(d, "answers_get", current,
          answers_get_handler(d, current, a)) : a \in AttemptIds}
  \cup {Authenticated(d, "test_user_grade", current,
          test_user_grade_handler(d, current, t, u)) : t \in TestIds, u \in Users}
  \cup {Authenticated(d, "test_user_answers", current,
          test_user_answers_handler(d, current, t, u)) : t \in TestIds, u \in Users}

\* C31: in every state, every request that is answered 403, whatever the
\* operation, its caller and its arguments, carries details (the
\* required_permission or a message that gives the reason).
C31_ForbiddenCarriesReason ==
  \A current \in AnyCallers :
    \A r \in AllOutcomes(db, current) :
      r.resp.code = 403 => r.resp.details # NoDetails

\* the outcomes of every request current can make in store d, the block
\* requests included
OutcomesWithBlock(d, current) ==
  AllOutcomes(d, current)
  \cup {Authenticated(d, "user_block_set", current,
          user_block_set_handler(d, current, id, blocked)) :
          id \in UserIdInputs, blocked \in BOOLEAN}

BlockedCallers(d) ==
  {current \in AnyCallers \cup BlockCallers : d.users[current.user_id].is_blocked}

\* C32: in every state, every request of a user whose account is blocked is
\* answered 418 and leaves the store unchanged, and no request of a user
\* whose account is not blocked is answered 418; and a user_block_set that
\* succeeds leaves a store in which every request of the user it names is
\* answered 418 if it blocked, and none is if it unblocked.
C32_BlockedIsRefused ==
  /\ \A current \in AnyCallers \cup BlockCallers :
       \A r \in OutcomesWithBlock(db, current) :
         IF current \in BlockedCallers(db)
         THEN r.resp.code = 418 /\ r.db = db
         ELSE r.resp.code # 418
  /\ \A admin \in BlockCallers, id \in Users, blocked \in BOOLEAN :
       LET set == Authenticated(db, "user_block_set", admin,
                    user_block_set_handler(db, admin, id, blocked))
       IN set.resp.code = 200 =>
            \A current \in AnyCallers \cup BlockCallers :
              current.user_id = id =>
                \A r \in OutcomesWithBlock(set.db, current) :
                  (r.resp.code = 418) = blocked

\* a student who has started an attempt is blocked, and the answer they
\* send next is refused
C32_Witness ==
  /\ resp.op = "answer_update"
  /\ resp.code = 418
  /\ \E u \in Users : db.users[u].is_blocked
  /\ db.attempts # EmptyTable

\* the caller is the author of question id or holds perm
AuthorOrHolder(d, current, id, perm) ==
  d.questions[id].author_id = current.user_id \/ has_perm(current, perm)

QuestionCallers ==
  Callers(QUEST_CREATE) \cup Callers(QUEST_UPDATE) \cup Callers(QUEST_DEL)

TestIdInputs == 1..(MaxTests + 1)

\* C34: in every state, attempt_create on a test that is missing or
\* soft-deleted is answered 404, on a test that is inactive or has no
\* question is answered 400, in each of these cases leaves the store, and
\* so the attempts, unchanged, and succeeds on every other test.
C34_AttemptNeedsOpenTestWithQuestions ==
  \A current \in AnyCallers, test_id \in TestIdInputs :
    LET r == Authenticated(db, "attempt_create", current,
               attempt_create_handler(db, current, test_id))
    IN IF ~TestFound(db, test_id)
       THEN r.resp.code = 404 /\ r.db = db
       ELSE IF ~db.tests[test_id].is_active \/ TestQuestions(db, test_id) = {}
       THEN r.resp.code = 400 /\ r.db = db
       ELSE r.resp.code = 200

\* attempt_create on an active test without questions has just been refused
C34_Witness ==
  /\ resp.op = "attempt_create"
  /\ resp.code = 400
  /\ resp.details = Message("Test has no questions")
  /\ db.attempts = EmptyTable

\* the orders that list every question of the test once
PermutationOrders(d, test_id) ==
  {csv \in OrderCsvInputs :
     /\ ~CsvIsInvalid(csv)
     /\ SameIds({r.question_id : r \in TestQuestions(d, test_id)}, csv.ids)}

\* C35: in every state, for every test that is found and has no attempt,
\* test_question_order by the teacher of its course with any permutation of
\* the test's question ids succeeds and leaves the i-th id of the list at
\* position i, counted from 0.
C35_AnyPermutationReorders ==
  \A test_id \in TestIds :
    (/\ TestFound(db, test_id)
     /\ CourseFound(db, db.tests[test_id].course_id)
     /\ attempts_cnt(db, test_id) = 0) =>
      \A csv \in PermutationOrders(db, test_id) :
        LET r == Authenticated(db, "test_question_order", Teacher,
                   test_question_order_handler(db, Teacher, test_id, csv))
        IN /\ r.resp.code = 200
           /\ \A i \in 1..Len(csv.ids) :
                \E row \in TestQuestions(r.db, test_id) :
                  row.question_id = csv.ids[i] /\ row.position = i - 1

Reported == resp.op = "test_user_grade" /\ resp.code = 200

Abs(n) == IF n < 0 THEN -n ELSE n

\* what every report of a percentage satisfies: a nearest integer in 0..100,
\* the even one on a tie, and not below the percentage of fewer correct
\* answers
NearestEvenMonotone(gp, correct, total) ==
  /\ gp \in 0..100
  /\ 2 * Abs(gp * total - 100 * correct) <= total
  /\ 2 * Abs(gp * total - 100 * correct) = total => gp % 2 = 0
  /\ \A fewer \in 0..correct : grade_percent(fewer, total) <= gp
  /\ (correct = 1 /\ total = 8) => gp = 12
  /\ (correct = 3 /\ total = 8) => gp = 38

\* C36 as stated: every reported grade_percent is a nearest integer to
\* 100*correct/total in 0..100, the even one on a tie, non-decreasing in
\* correct, and is 100 exactly when correct = total.
C36_HundredOnlyWhenAllCorrect ==
  Reported =>
    /\ NearestEvenMonotone(resp.ret.grade_percent, resp.ret.correct, resp.ret.total)
    /\ (resp.ret.grade_percent = 100) = (resp.ret.correct = resp.ret.total)

\* C36: every reported grade_percent is a nearest integer to
\* 100*correct/total in 0..100, the even one on a tie, non-decreasing in
\* correct, and is 100 exactly when 200 * (total - correct) <= total, which
\* below 200 answers means correct = total.
C36_PercentIsNearestTiesToEven ==
  Reported =>
    /\ NearestEvenMonotone(resp.ret.grade_percent, resp.ret.correct, resp.ret.total)
    /\ (resp.ret.grade_percent = 100)
         = (200 * (resp.ret.total - resp.ret.correct) <= resp.ret.total)
    /\ resp.ret.total < 200 =>
         (resp.ret.grade_percent = 100) = (resp.ret.correct = resp.ret.total)

\* 199 correct answers of 200 are reported as 100 percent
C36_Witness ==
  /\ Reported
  /\ resp.ret.total = 200
  /\ resp.ret.correct = 199
  /\ resp.ret.grade_percent = 100

\* the (question_id, position) pairs of a set of rows
Placing(rows) == {<<r.question_id, r.position>> : r \in rows}

\* C37: in every state reached by requests handled one at a time, the
\* (question_id, position) pairs of the attempt_questions rows of every
\* attempt are those of the test_questions rows of the attempt's test.
C37_SnapshotPlacesAsTest ==
  \A a \in DOMAIN db.attempts :
    Placing(SnapshotOf(db, a)) = Placing(TestQuestions(db, db.attempts[a].test_id))

\* an attempt exists on a test whose positions do not start at 0, and an
\* edit of the test's questions has just been refused
C37_Witness ==
  /\ db.attempts # EmptyTable
  /\ \A r \in db.test_questions : r.position # 0
  /\ resp.op \in {"test_question_add", "test_question_del", "test_question_order"}
  /\ resp.code = 400

\* C38: in every state, every attempt has at least one attempt_questions
\* row and at least one answers row, and every grade report that
\* test_user_grade makes of it, whoever asks, has total >= 1.
C38_AttemptHasRowsAndTotal ==
  \A a \in DOMAIN db.attempts :
    /\ SnapshotOf(db, a) # {}
    /\ AnswersOf(db, a) # {}
    /\ \A current \in Callers(TEST_ANSWER_READ) :
         LET r == Authenticated(db, "test_user_grade", current,
                    test_user_grade_handler(db, current, db.attempts[a].test_id,
                                            db.attempts[a].user_id))
         IN r.resp.code = 200 => r.resp.ret.total >= 1

\* an attempt has just been created on a test left with a single question
C38_Witness ==
  /\ resp.op = "attempt_create"
  /\ resp.code = 200
  /\ resp.ret.id \in DOMAIN db.attempts
  /\ Cardinality(SnapshotOf(db, resp.ret.id)) = 1
  /\ Cardinality(AnswersOf(db, resp.ret.id)) = 1

\* user_id owns an attempt whose snapshot pins version version of question id
OwnsPinning(d, user_id, id, version) ==
  \E row \in d.attempt_questions :
    /\ row.question_id = id
    /\ row.question_version = version
    /\ d.attempts[row.attempt_id].user_id = user_id

\* C39: in every state, for every question, every version number and every
\* caller who is neither the question's author nor a holder of quest:read,
\* question_get answers 200 exactly when the caller owns an attempt, of
\* whatever status, whose snapshot pins that version of the question, and
\* the reply then carries the correct index of that version.
C39_PinnedVersionReadByAttemptOwner ==
  \A id \in DOMAIN db.questions, version \in 1..MaxVersions :
    \A current \in Callers(QUEST_READ) :
      (/\ db.questions[id].author_id # current.user_id
       /\ ~has_perm(current, QUEST_READ)) =>
        LET r == Authenticated(db, "question_get", current,
                   question_get_handler(db, current, id, version))
        IN /\ (r.resp.code = 200) = OwnsPinning(db, current.user_id, id, version)
           /\ r.resp.code = 200 =>
                r.resp.ret.correctIndex = VersionRow(db, id, version).correct_index

\* the owner of attempt a, with and without permissions
OwnersOf(d, a) == {current \in AnyCallers : current.user_id = d.attempts[a].user_id}

\* C40: in every state, for every attempt whose test has been deactivated
\* or soft-deleted, attempt_create on that test by the attempt's owner is
\* answered 404 (test soft-deleted) or 400 'Test is not active', changes
\* nothing and does not return the attempt's id, while attempt_get and
\* attempt_finish by the owner succeed and, as long as the attempt is in
\* progress, so do the owner's answer_update and answer_delete on each of
\* its answers.
C40_ClosedTestRefusesCreateOnly ==
  \A a \in DOMAIN db.attempts :
    LET test_id == db.attempts[a].test_id IN
    (~TestFound(db, test_id) \/ ~db.tests[test_id].is_active) =>
      \A current \in OwnersOf(db, a) :
        LET created == Authenticated(db, "attempt_create", current,
                         attempt_create_handler(db, current, test_id))
        IN /\ created.db = db
           /\ IF ~TestFound(db, test_id)
              THEN created.resp.code = 404
              ELSE /\ created.resp.code = 400
                   /\ created.resp.details = Message("Test is not active")
           /\ Authenticated(db, "attempt_get", current,
                attempt_get_handler(db, current, a)).resp.code = 200
           /\ Authenticated(db, "attempt_finish", current,
                attempt_finish_handler(db, current, a)).resp.code = 200
           /\ db.attempts[a].status = "in_progress" =>
                \A x \in AnswersOf(db, a) :
                  /\ \A index \in 0..MaxIndex :
                       LET r == Authenticated(db, "answer_update", current,
                                  answer_update_handler(db, current, x, index))
                       IN r.resp.code = 200 /\ r.db.answers[x].answer_index = index
                  /\ Authenticated(db, "answer_delete", current,
                       answer_delete_handler(db, current, x)).resp.code = 200

\* an attempt exists, its test has been deactivated since, attempt_create
\* on it has just been refused, and the attempt is still in progress with
\* an answer given
C40_Witness ==
  /\ resp.op = "attempt_create"
  /\ resp.code = 400
  /\ resp.details = Message("Test is not active")
  /\ \E a \in DOMAIN db.attempts :
       /\ db.attempts[a].status = "in_progress"
       /\ TestFound(db, db.attempts[a].test_id)
       /\ ~db.tests[db.attempts[a].test_id].is_active
       /\ \E x \in AnswersOf(db, a) : db.answers[x].answer_index # -1

====
